---- MODULE Spec2Model ----
(***************************************************************************)
(* A model of the CalCraft calendar core: the date normaliser              *)
(* (parseICSDate), the event parser (parseICS), the recurrence expander    *)
(* (expandRecurringForYear), the month grid layout of MonthPage and the    *)
(* calendar-source state of App.                                           *)
(*                                                                         *)
(* A JavaScript Date is modelled by its time value, kept exact to the      *)
(* second as a record [day, sod]: the number of whole days since           *)
(* 1970-01-01 UTC and the second of that day (time value =                 *)
(* (day * 86400 + sod) * 1000 ms).  Calendar fields are computed with the  *)
(* ECMAScript algorithms (DayFromYear, MakeDay, ...).  The environment's   *)
(* local zone is a fixed offset tz (seconds east of UTC).                  *)
(***************************************************************************)
EXTENDS Integers, Sequences, FiniteSets, TLC

VARIABLES
    tz,          \* the environment's local UTC offset, in seconds east of UTC
    now,         \* the instant "new Date()" returns
    dToken,      \* date normaliser: the raw token handed to parseICSDate
    dResult,     \* date normaliser: the Date returned (NoDate before the call)
    dpc,         \* date normaliser: "call" before, "done" after parseICSDate
    xEvents,     \* recurrence expander: the source event list
    xYear,       \* recurrence expander: the target year
    xResult,     \* recurrence expander: the list returned
    xpc,         \* recurrence expander: "call" before, "done" after the call
    pData,       \* event parser: the document text handed to parseICS
    pLines,      \* event parser: the logical lines not yet read
    pCur,        \* event parser: currentEvent, the open accumulator or NullEvent
    pEvents,     \* event parser: the events list built so far
    ppc,         \* event parser: "call", "loop" (reading lines) or "done"
    gYear,       \* month page: monthConfig.year
    gMonth,      \* month page: monthConfig.month (0..11)
    gRows,       \* month page: config.gridRows (0 = standard 7-column mode)
    gShow,       \* month page: config.showGrid
    gColumns,    \* month page: the column count of the rendered grid
    gCells,      \* month page: the cells array of the rendered grid
    gpc,         \* month page: "render" before, "done" after the grid block
    aYear,       \* App: config.year
    aCalendars,  \* App: the calendars state, a list of calendar sources
    aColor,      \* App: pendingCalendarColor
    aReads,      \* App: the file reads in flight, each with what its handler captured
    aNextId,     \* App: the number of ids drawn so far (crypto.randomUUID)
    aSources,    \* history: for each calendar id, the file it was read from
    apc,         \* App: "run" while the application runs
    kDev,        \* import.meta.env.DEV: capturing is opted out of
    mYear,       \* App: config.year
    mMonths,     \* App: the monthConfigs state
    mEffect,     \* TRUE while the effect on config.year has yet to run
    mReads,      \* the image reads in flight, each with what its handler captured
    mUploads,    \* the number of image uploads so far
    kCalendars,  \* App: the calendars state, each source without its events
    kReads,      \* the calendar file reads in flight
    kNextId,     \* the number of ids drawn so far (crypto.randomUUID)
    kSent,       \* the last message sent to the analytics service
    kCause,      \* history: the user action that sent it
    spc,         \* "run" while the application runs
    cConfig,     \* App: the page-size fields of config
    cPage,       \* month page: currentWidth, currentHeight and pageScale of the last render
    cContainer,  \* App: the height of the page container of the last render
    cPreview,    \* App: currentWidthMM of the last run of updateScale
    cEffect,     \* TRUE while the effect on the page-size fields has yet to run
    cPdf,        \* history: the format of the PDF exported from the present config, if any
    cpc,         \* "run" while the application runs
    yEvents,     \* month page: the events prop
    yMonthEvents, \* month page: monthEvents of the render
    yDayEvents,  \* month page: for each cell of the grid, its dayEvents
    yShowEvents, \* month page: config.showEvents
    yShown,      \* month page: for each cell, the event titles it displays
    yOverflow,   \* month page: for each cell, the "+N" counters it displays
    ypc,         \* month page: "render" before, "done" after the render
    lOrder,      \* App: config.layoutOrder
    lSent,       \* App: the number of config_updated messages for layoutOrder
    lPrev,       \* history: config.layoutOrder before the last call of moveBlock
    lLast,       \* history: the index and direction of the last call of moveBlock
    lpc          \* "run" while the application runs

envVars  == <<tz, now>>
dateVars == <<dToken, dResult, dpc>>
expVars  == <<xEvents, xYear, xResult, xpc>>
parseVars == <<pData, pLines, pCur, pEvents, ppc>>
gridVars == <<gYear, gMonth, gRows, gShow, gColumns, gCells, gpc>>
appVars  == <<aYear, aCalendars, aColor, aReads, aNextId, aSources, apc>>
sessionVars == <<kDev, mYear, mMonths, mEffect, mReads, mUploads,
                 kCalendars, kReads, kNextId, kSent, kCause, spc>>
geoVars  == <<cConfig, cPage, cContainer, cPreview, cEffect, cPdf, cpc>>
dayVars  == <<yEvents, yMonthEvents, yDayEvents, yShowEvents, yShown, yOverflow, ypc>>
layoutVars == <<lOrder, lSent, lPrev, lLast, lpc>>
vars     == <<envVars, dateVars, expVars, parseVars, gridVars, appVars, sessionVars,
              geoVars, dayVars, layoutVars>>

(***************************************************************************)
(* Bounds of the model.                                                    *)
(***************************************************************************)
MinYear   == 2023      \* first year of the modelled calendar window
MaxYear   == 2025      \* last year of the modelled calendar window
EarlyYear == 50        \* a four-digit year token below 0100 ("0050")

Years == MinYear..MaxYear

\* local zones of the consuming environment: UTC-8, UTC, UTC+5:30
TzOffsets == {-28800, 0, 19800}

SecPerDay == 86400

(***************************************************************************)
(* ECMAScript date arithmetic (the Date built-in the code relies on).      *)
(***************************************************************************)
DayFromYear(y) ==
    365 * (y - 1970) + ((y - 1969) \div 4) - ((y - 1901) \div 100)
        + ((y - 1601) \div 400)

InLeapYear(y) == DayFromYear(y + 1) - DayFromYear(y) = 366

YearFromDay(d) ==
    LET e == 1970 + (d \div 365)
    IN  CHOOSE y \in (e - 2)..(e + 2) :
            DayFromYear(y) <= d /\ d < DayFromYear(y + 1)

\* day number within the year of the first day of month m (0..12)
MonthStart(m, leap) ==
    <<0, 31, 59, 90, 120, 151, 181, 212, 243, 273, 304, 334, 365>>[m + 1]
        + (IF leap /\ m >= 2 THEN 1 ELSE 0)

MonthFromDay(d) ==
    LET y    == YearFromDay(d)
        dwy  == d - DayFromYear(y)
        leap == InLeapYear(y)
    IN  CHOOSE m \in 0..11 :
            MonthStart(m, leap) <= dwy /\ dwy < MonthStart(m + 1, leap)

DateFromDay(d) ==
    LET y == YearFromDay(d)
    IN  d - DayFromYear(y) - MonthStart(MonthFromDay(d), InLeapYear(y)) + 1

WeekDay(d) == (d + 4) % 7

\* MakeDay(year, month, date): month and date may lie outside their ranges
MakeDay(y, m, dt) ==
    LET ym == y + (m \div 12)
        mn == m % 12
    IN  DayFromYear(ym) + MonthStart(mn, InLeapYear(ym)) + dt - 1

MakeTime(h, mi, s) == h * 3600 + mi * 60 + s

\* MakeDate(day, time): time is a number of seconds, of any sign
MakeDate(day, time) ==
    [day |-> day + (time \div SecPerDay), sod |-> time % SecPerDay]

\* the constructors map a year 0..99 to 1900 + year
FullYear(y) == IF 0 <= y /\ y <= 99 THEN 1900 + y ELSE y

\* Date.UTC(y, m, d, h, mi, s) wrapped in new Date(...)
DateUTC(y, m, d, h, mi, s) ==
    MakeDate(MakeDay(FullYear(y), m, d), MakeTime(h, mi, s))

\* new Date(y, m, d, h, mi, s): the fields are local time
DateLocal(y, m, d, h, mi, s) ==
    MakeDate(MakeDay(FullYear(y), m, d), MakeTime(h, mi, s) - tz)

\* the instant whose UTC fields are the local fields of t
LocalView(t) == MakeDate(t.day, t.sod + tz)

getUTCFullYear(t) == YearFromDay(t.day)
getUTCMonth(t)    == MonthFromDay(t.day)
getUTCDate(t)     == DateFromDay(t.day)
getUTCHours(t)    == t.sod \div 3600
getUTCMinutes(t)  == (t.sod % 3600) \div 60
getUTCSeconds(t)  == t.sod % 60

getFullYear(t) == YearFromDay(LocalView(t).day)
getMonth(t)    == MonthFromDay(LocalView(t).day)
getDate(t)     == DateFromDay(LocalView(t).day)
getHours(t)    == LocalView(t).sod \div 3600
getMinutes(t)  == (LocalView(t).sod % 3600) \div 60
getSeconds(t)  == LocalView(t).sod % 60

\* Feb 29 becomes Feb 28 in a year without one
setUTCFullYear_ClampDay(t, y) ==
    LET m == getUTCMonth(t)
        d == getUTCDate(t)
    IN  MakeDate(MakeDay(y, m, IF m = 1 /\ d = 29 /\ ~InLeapYear(y) THEN 28 ELSE d),
                 t.sod)

\* d.setUTCFullYear(y): MakeDay of the year, the month and the date, with the
\* time of day kept; a date the month does not have runs into the next month
setUTCFullYear(t, y) ==
    MakeDate(MakeDay(y, getUTCMonth(t), getUTCDate(t)), t.sod)

\* (a.getTime() - b.getTime()) / (1000 * 60 * 60 * 24) for two midnights
DiffDays(a, b) == a.day - b.day

(***************************************************************************)
(* Text: a string is a sequence of one-character strings.                  *)
(***************************************************************************)
DigitChars == <<"0", "1", "2", "3", "4", "5", "6", "7", "8", "9">>

IsDigit(c) == \E i \in 1..10 : DigitChars[i] = c

DigitVal(c) == (CHOOSE i \in 1..10 : DigitChars[i] = c) - 1

IsSpace(c) == c \in {" ", "\t", "\r", "\n"}

RECURSIVE parseInt(_)
parseInt(s) ==
    IF s = <<>> THEN 0
    ELSE 10 * parseInt(SubSeq(s, 1, Len(s) - 1)) + DigitVal(s[Len(s)])

AllDigits(s, from, to) ==
    /\ to <= Len(s)
    /\ \A i \in from..to : IsDigit(s[i])

RECURSIVE TrimLeft(_)
TrimLeft(s) ==
    IF s # <<>> /\ IsSpace(s[1]) THEN TrimLeft(Tail(s)) ELSE s

RECURSIVE TrimRight(_)
TrimRight(s) ==
    IF s # <<>> /\ IsSpace(s[Len(s)])
    THEN TrimRight(SubSeq(s, 1, Len(s) - 1)) ELSE s

Trim(s) == TrimRight(TrimLeft(s))

(***************************************************************************)
(* parseICSDate                                                            *)
(***************************************************************************)
NoDate == [day |-> -1000000, sod |-> 0]

\* /^(\d{4})(\d{2})(\d{2})(?:T(\d{2})(\d{2})(\d{2})(Z)?)?/ on the trimmed token
StrictMatch(s) == AllDigits(s, 1, 8)

HasTime(s) == Len(s) >= 15 /\ s[9] = "T" /\ AllDigits(s, 10, 15)

HasZ(s) == HasTime(s) /\ Len(s) >= 16 /\ s[16] = "Z"

\* /(\d{4})(\d{2})(\d{2})/ on the raw token: the first run of 8 digits
FallbackAt(s) ==
    IF \E i \in 1..Len(s) : AllDigits(s, i, i + 7)
    THEN CHOOSE i \in 1..Len(s) :
            /\ AllDigits(s, i, i + 7)
            /\ \A j \in 1..(i - 1) : ~AllDigits(s, j, j + 7)
    ELSE 0

\* the failure path returns the epoch instead of the current instant
parseICSDate_EpochOnFailure(icsDate) ==
    LET t == Trim(icsDate)
    IN  IF ~StrictMatch(t)
        THEN LET i == FallbackAt(icsDate)
             IN  IF i # 0
                 THEN DateUTC(parseInt(SubSeq(icsDate, i, i + 3)),
                              parseInt(SubSeq(icsDate, i + 4, i + 5)) - 1,
                              parseInt(SubSeq(icsDate, i + 6, i + 7)), 0, 0, 0)
                 ELSE [day |-> 0, sod |-> 0]
        ELSE IF HasTime(t)
             THEN IF HasZ(t)
                  THEN DateUTC(parseInt(SubSeq(t, 1, 4)), parseInt(SubSeq(t, 5, 6)) - 1,
                               parseInt(SubSeq(t, 7, 8)), parseInt(SubSeq(t, 10, 11)),
                               parseInt(SubSeq(t, 12, 13)), parseInt(SubSeq(t, 14, 15)))
                  ELSE DateLocal(parseInt(SubSeq(t, 1, 4)), parseInt(SubSeq(t, 5, 6)) - 1,
                                 parseInt(SubSeq(t, 7, 8)), parseInt(SubSeq(t, 10, 11)),
                                 parseInt(SubSeq(t, 12, 13)), parseInt(SubSeq(t, 14, 15)))
             ELSE DateUTC(parseInt(SubSeq(t, 1, 4)), parseInt(SubSeq(t, 5, 6)) - 1,
                          parseInt(SubSeq(t, 7, 8)), 0, 0, 0)

parseICSDate(icsDate) ==
    LET t == Trim(icsDate)
    IN  IF ~StrictMatch(t)
        THEN LET i == FallbackAt(icsDate)
             IN  IF i # 0
                 THEN DateUTC(parseInt(SubSeq(icsDate, i, i + 3)),
                              parseInt(SubSeq(icsDate, i + 4, i + 5)) - 1,
                              parseInt(SubSeq(icsDate, i + 6, i + 7)), 0, 0, 0)
                 ELSE now
        ELSE LET year  == parseInt(SubSeq(t, 1, 4))
                 month == parseInt(SubSeq(t, 5, 6)) - 1
                 day   == parseInt(SubSeq(t, 7, 8))
             IN  IF HasTime(t)
                 THEN LET hh == parseInt(SubSeq(t, 10, 11))
                          mm == parseInt(SubSeq(t, 12, 13))
                          ss == parseInt(SubSeq(t, 14, 15))
                      IN  IF HasZ(t)
                          THEN DateUTC(year, month, day, hh, mm, ss)
                          ELSE DateLocal(year, month, day, hh, mm, ss)
                 ELSE DateUTC(year, month, day, 0, 0, 0)

\* how a call of parseICSDate ends: the return statement it reaches.  Every
\* path of the function ends in a return; it has no throw statement.
ReturnSite(icsDate) ==
    LET t == Trim(icsDate)
    IN  IF ~StrictMatch(t)
        THEN (IF FallbackAt(icsDate) # 0 THEN "return fallback"
              ELSE "return new Date()")
        ELSE IF HasTime(t)
             THEN (IF HasZ(t) THEN "return utc" ELSE "return local")
             ELSE "return date-only"

(***************************************************************************)
(* Tokens handed to the date normaliser.                                   *)
(***************************************************************************)
Pad2(n) == <<DigitChars[((n \div 10) % 10) + 1], DigitChars[(n % 10) + 1]>>

Pad4(n) == Pad2(n \div 100) \o Pad2(n % 100)

FormatDate(y, m, d) == Pad4(y) \o Pad2(m) \o Pad2(d)

FormatTime(h, mi, s) == <<"T">> \o Pad2(h) \o Pad2(mi) \o Pad2(s)

\* the number of days of month m (1..12) of the proleptic Gregorian year y
CalendarDays(y, m) ==
    IF m = 2
    THEN (IF (y % 4 = 0 /\ y % 100 # 0) \/ y % 400 = 0 THEN 29 ELSE 28)
    ELSE IF m \in {4, 6, 9, 11} THEN 30 ELSE 31

TokenYears == Years \cup {EarlyYear}

\* every date-only token YYYYMMDD that names a real calendar date
ValidDateTokens ==
    { FormatDate(x[1], x[2], x[3]) :
        x \in { v \in TokenYears \X (1..12) \X (1..31) :
                    v[3] <= CalendarDays(v[1], v[2]) } }

ClockTimes == { <<0, 0, 0>>, <<9, 30, 15>>, <<23, 30, 0>> }

TimedTokens ==
    { FormatDate(y, m, d) \o FormatTime(c[1], c[2], c[3]) \o z :
        y \in {MaxYear}, m \in {1, 2, 12}, d \in {1, 28, 31},
        c \in ClockTimes, z \in {<<>>, <<"Z">>} }

\* timed tokens of a year below 0100
EarlyTimedTokens ==
    { FormatDate(EarlyYear, 3, 15) \o FormatTime(c[1], c[2], c[3]) \o z :
        c \in ClockTimes, z \in {<<>>, <<"Z">>} }

MalformedTokens ==
    { <<"T", "B", "D">>,
      <<>>,
      <<"x">> \o FormatDate(MaxYear, 7, 4),
      <<" ">> \o FormatDate(MaxYear, 7, 4) \o <<" ">>,
      <<"2", "0", "2", "4", "-", "0", "7", "-", "0", "4">>,
      FormatDate(MaxYear, 2, 30),
      FormatDate(MaxYear, 13, 1) }

DateTokens ==
    ValidDateTokens \cup TimedTokens \cup EarlyTimedTokens \cup MalformedTokens

Nows == { DateUTC(MaxYear, 5, 15, 10, 20, 30) }

(***************************************************************************)
(* Calendar events.  An absent optional field holds Undefined (text) or    *)
(* NoDate (instants).                                                      *)
(***************************************************************************)
Undefined == <<"undefined">>

LowerChars == <<"a", "b", "c", "d", "e", "f", "g", "h", "i", "j", "k", "l", "m",
                "n", "o", "p", "q", "r", "s", "t", "u", "v", "w", "x", "y", "z">>

UpperChars == <<"A", "B", "C", "D", "E", "F", "G", "H", "I", "J", "K", "L", "M",
                "N", "O", "P", "Q", "R", "S", "T", "U", "V", "W", "X", "Y", "Z">>

UpperChar(c) ==
    IF \E i \in 1..26 : LowerChars[i] = c
    THEN UpperChars[CHOOSE i \in 1..26 : LowerChars[i] = c]
    ELSE c

toUpperCase(s) == [i \in 1..Len(s) |-> UpperChar(s[i])]

\* s contains the text w at some position
Contains(s, w) ==
    \E i \in 1..(Len(s) - Len(w) + 1) : SubSeq(s, i, i + Len(w) - 1) = w

\* a string is truthy when it is present and not empty
Truthy(s) == s # Undefined /\ s # <<>>

FreqYearly == <<"F", "R", "E", "Q", "=", "Y", "E", "A", "R", "L", "Y">>

\* anyEv.rrule && /FREQ=YEARLY/i.test(anyEv.rrule)
IsYearlyRule(rrule) == Truthy(rrule) /\ Contains(toUpperCase(rrule), FreqYearly)

Event(title, startDate, endDate, description, rrule) ==
    [title |-> title, startDate |-> startDate, endDate |-> endDate,
     description |-> description, rrule |-> rrule]

(***************************************************************************)
(* expandRecurringForYear                                                  *)
(***************************************************************************)
IsAllDay(sd, ed) ==
    /\ getUTCHours(sd) = 0 /\ getUTCMinutes(sd) = 0 /\ getUTCSeconds(sd) = 0
    /\ (ed = NoDate
        \/ (getUTCHours(ed) = 0 /\ getUTCMinutes(ed) = 0
            /\ getUTCSeconds(ed) = 0))

\* the year is left as it is in the source
ShiftToYear_KeepYear(d, targetYear) == d

\* new Date(Date.UTC(<the UTC fields of d>)) followed by setUTCFullYear
ShiftToYear(d, targetYear) ==
    setUTCFullYear(
        DateUTC(getUTCFullYear(d), getUTCMonth(d), getUTCDate(d),
                getUTCHours(d), getUTCMinutes(d), getUTCSeconds(d)),
        targetYear)

\* a one-day span keeps its end
IsMultiDay_Inclusive(diffDays) == diffDays >= 1

\* if (diffDays > 1): the all-day source spans more than one day
IsMultiDay(diffDays) == diffDays > 1

YearlyInstance(ev, targetYear) ==
    LET sd == ev.startDate
        ed == ev.endDate
        isAllDay == IsAllDay(sd, ed)
        newStart == ShiftToYear(sd, targetYear)
        newEnd ==
            IF ed # NoDate /\ isAllDay
            THEN LET startDay == DateUTC(getUTCFullYear(sd), getUTCMonth(sd),
                                         getUTCDate(sd), 0, 0, 0)
                     endDay   == DateUTC(getUTCFullYear(ed), getUTCMonth(ed),
                                         getUTCDate(ed), 0, 0, 0)
                     diffDays == DiffDays(endDay, startDay)
                 IN  IF IsMultiDay(diffDays) THEN ShiftToYear(ed, targetYear)
                     ELSE NoDate
            ELSE IF ed # NoDate /\ ~isAllDay
                 THEN ShiftToYear(ed, targetYear)
                 ELSE NoDate
    IN  Event(ev.title, newStart, newEnd, ev.description, Undefined)

\* the local year is compared instead of the UTC year
KeepsNonRecurring_LocalYear(ev, targetYear) == getFullYear(ev.startDate) = targetYear

\* the non-recurring branch: keep the event if it falls in the target year
KeepsNonRecurring(ev, targetYear) == getUTCFullYear(ev.startDate) = targetYear

\* one iteration of the loop: what the event adds to the expanded list
ExpandOne(ev, targetYear) ==
    IF IsYearlyRule(ev.rrule)
    THEN <<YearlyInstance(ev, targetYear)>>
    ELSE IF KeepsNonRecurring(ev, targetYear) THEN <<ev>> ELSE <<>>

RECURSIVE expandRecurringForYear(_, _)
expandRecurringForYear(events, targetYear) ==
    IF events = <<>> THEN <<>>
    ELSE expandRecurringForYear(SubSeq(events, 1, Len(events) - 1), targetYear)
            \o ExpandOne(events[Len(events)], targetYear)

(***************************************************************************)
(* parseICS                                                                *)
(***************************************************************************)
\* only a line break followed by a space is removed
Unfold_SpaceOnly(s) ==
    LET n == Len(s)
        Brk(i) == i < n /\ s[i] = "\n" /\ s[i + 1] = " "
        Dropped(i) ==
            \/ Brk(i)
            \/ (i > 1 /\ Brk(i - 1))
            \/ (s[i] = "\r" /\ Brk(i + 1))
        marked == [i \in 1..n |-> IF Dropped(i) THEN "dropped" ELSE s[i]]
        IsKept(c) == c # "dropped"
    IN  SelectSeq(marked, IsKept)

\* data.replace(/\r?\n[ \t]/g, ''): a line break followed by a space or a tab
\* is removed together with that character
Unfold(s) ==
    LET n == Len(s)
        \* a line break at i that is followed by a space or a tab
        Brk(i) == i < n /\ s[i] = "\n" /\ s[i + 1] \in {" ", "\t"}
        \* the character at i belongs to a match of the pattern
        Dropped(i) ==
            \/ Brk(i)
            \/ (i > 1 /\ Brk(i - 1))
            \/ (s[i] = "\r" /\ Brk(i + 1))
        marked == [i \in 1..n |-> IF Dropped(i) THEN "dropped" ELSE s[i]]
        IsKept(c) == c # "dropped"
    IN  SelectSeq(marked, IsKept)

\* the position of the first c in s, or 0 when there is none (indexOf)
IndexOf(s, c) ==
    IF \E i \in 1..Len(s) : s[i] = c
    THEN CHOOSE i \in 1..Len(s) : s[i] = c /\ \A j \in 1..(i - 1) : s[j] # c
    ELSE 0

\* unfolded.split(/\r?\n/)
RECURSIVE SplitLines(_)
SplitLines(s) ==
    LET i == IndexOf(s, "\n")
    IN  IF i = 0 THEN <<s>>
        ELSE LET head == IF i >= 2 /\ s[i - 1] = "\r"
                         THEN SubSeq(s, 1, i - 2) ELSE SubSeq(s, 1, i - 1)
             IN  <<head>> \o SplitLines(SubSeq(s, i + 1, Len(s)))

\* value.replace(/\\,/g, ',')
RECURSIVE UnescapeComma(_)
UnescapeComma(s) ==
    IF s = <<>> THEN <<>>
    ELSE IF Len(s) >= 2 /\ s[1] = "\\" /\ s[2] = ","
         THEN <<",">> \o UnescapeComma(SubSeq(s, 3, Len(s)))
    ELSE <<s[1]>> \o UnescapeComma(Tail(s))

\* value.replace(/\\n/g, '\n')
RECURSIVE UnescapeNewline(_)
UnescapeNewline(s) ==
    IF s = <<>> THEN <<>>
    ELSE IF Len(s) >= 2 /\ s[1] = "\\" /\ s[2] = "n"
         THEN <<"\n">> \o UnescapeNewline(SubSeq(s, 3, Len(s)))
    ELSE <<s[1]>> \o UnescapeNewline(Tail(s))

Unescape(value) == UnescapeNewline(UnescapeComma(value))

\* currentEvent = null
NullEvent ==
    [open |-> FALSE, title |-> Undefined, startDate |-> NoDate,
     endDate |-> NoDate, description |-> Undefined, rrule |-> Undefined]

\* currentEvent = {}
EmptyEvent == [NullEvent EXCEPT !.open = TRUE]

\* currentEvent as CalendarEvent
AsCalendarEvent(cur) ==
    Event(cur.title, cur.startDate, cur.endDate, cur.description, cur.rrule)

\* propPart.split(';')[0].toUpperCase()
KeyOf(line) ==
    LET propPart == SubSeq(line, 1, IndexOf(line, ":") - 1)
        semi     == IndexOf(propPart, ";")
    IN  toUpperCase(IF semi = 0 THEN propPart
                    ELSE SubSeq(propPart, 1, semi - 1))

\* line.substring(colonIndex + 1)
ValueOf(line) == SubSeq(line, IndexOf(line, ":") + 1, Len(line))

KeyBEGIN       == <<"B", "E", "G", "I", "N">>
KeyEND         == <<"E", "N", "D">>
KeySUMMARY     == <<"S", "U", "M", "M", "A", "R", "Y">>
KeyRRULE       == <<"R", "R", "U", "L", "E">>
KeyDTSTART     == <<"D", "T", "S", "T", "A", "R", "T">>
KeyDTEND       == <<"D", "T", "E", "N", "D">>
KeyDESCRIPTION == <<"D", "E", "S", "C", "R", "I", "P", "T", "I", "O", "N">>
VEVENT         == <<"V", "E", "V", "E", "N", "T">>

\* the line is skipped: it is blank or has no colon
Skipped(line) == Trim(line) = <<>> \/ IndexOf(line, ":") = 0

IsBeginEvent(line) ==
    ~Skipped(line) /\ KeyOf(line) = KeyBEGIN /\ toUpperCase(ValueOf(line)) = VEVENT

IsEndEvent(line) ==
    /\ ~Skipped(line) /\ ~IsBeginEvent(line)
    /\ KeyOf(line) = KeyEND /\ toUpperCase(ValueOf(line)) = VEVENT

\* the title is not looked at
Commits_AnyTitle(cur) == cur.open /\ cur.startDate # NoDate

\* the END:VEVENT branch pushes the accumulator
Commits(cur) == cur.open /\ Truthy(cur.title) /\ cur.startDate # NoDate

\* the switch on the key of a property line inside an open event
SetProperty(cur, key, value) ==
    IF key = KeySUMMARY THEN [cur EXCEPT !.title = Unescape(value)]
    ELSE IF key = KeyRRULE THEN [cur EXCEPT !.rrule = value]
    ELSE IF key = KeyDTSTART THEN [cur EXCEPT !.startDate = parseICSDate(value)]
    ELSE IF key = KeyDTEND THEN [cur EXCEPT !.endDate = parseICSDate(value)]
    ELSE IF key = KeyDESCRIPTION
         THEN [cur EXCEPT !.description = Unescape(value)]
    ELSE cur

\* a skipped line closes the accumulator
ParseLine_SkippedCloses(cur, events, line) ==
    IF Skipped(line) THEN <<NullEvent, events>>
    ELSE IF IsBeginEvent(line) THEN <<EmptyEvent, events>>
    ELSE IF IsEndEvent(line)
         THEN <<NullEvent,
                IF Commits(cur) THEN Append(events, AsCalendarEvent(cur))
                ELSE events>>
    ELSE IF cur.open
         THEN <<SetProperty(cur, KeyOf(line), ValueOf(line)), events>>
    ELSE <<cur, events>>

\* a BEGIN:VEVENT marker leaves an open accumulator as it is
ParseLine_KeepOpen(cur, events, line) ==
    IF Skipped(line) THEN <<cur, events>>
    ELSE IF IsBeginEvent(line)
         THEN <<IF cur.open THEN cur ELSE EmptyEvent, events>>
    ELSE IF IsEndEvent(line)
         THEN <<NullEvent,
                IF Commits(cur) THEN Append(events, AsCalendarEvent(cur))
                ELSE events>>
    ELSE IF cur.open
         THEN <<SetProperty(cur, KeyOf(line), ValueOf(line)), events>>
    ELSE <<cur, events>>

\* one iteration of the loop over the lines: the new <<currentEvent, events>>
ParseLine(cur, events, line) ==
    IF Skipped(line) THEN <<cur, events>>
    ELSE IF IsBeginEvent(line) THEN <<EmptyEvent, events>>
    ELSE IF IsEndEvent(line)
         THEN <<NullEvent,
                IF Commits(cur) THEN Append(events, AsCalendarEvent(cur))
                ELSE events>>
    ELSE IF cur.open
         THEN <<SetProperty(cur, KeyOf(line), ValueOf(line)), events>>
    ELSE <<cur, events>>

RECURSIVE ParseLines(_, _, _)
ParseLines(cur, events, lines) ==
    IF lines = <<>> THEN events
    ELSE LET st == ParseLine(cur, events, Head(lines))
         IN  ParseLines(st[1], st[2], Tail(lines))

parseICS(data) == ParseLines(NullEvent, <<>>, SplitLines(Unfold(data)))

(***************************************************************************)
(* MonthPage: the grid block.                                              *)
(***************************************************************************)
\* d.getDay()
getDay(t) == WeekDay(LocalView(t).day)

\* new Date(year, month + 1, 0).getDate()
getDaysInMonth(month, year) == getDate(DateLocal(year, month + 1, 0, 0, 0, 0))

\* new Date(year, month, 1).getDay()
getFirstDayOfMonth(month, year) == getDay(DateLocal(year, month, 1, 0, 0, 0))

NullDay  == 0          \* day: null, a header cell
BlankDay == 0 - 1      \* day: -1, an empty cell

Cell(day, label) == [day |-> day, label |-> label]

BlankCell == Cell(BlankDay, "")

dayNames == <<"Sun", "Mon", "Tue", "Wed", "Thu", "Fri", "Sat">>

LongNames ==
    <<"Sunday", "Monday", "Tuesday", "Wednesday", "Thursday", "Friday",
      "Saturday">>

NarrowNames == <<"S", "M", "T", "W", "T", "F", "S">>

\* date.toLocaleString('default', { weekday: ... }) by the column count
getDayLabel(date, totalCols) ==
    IF totalCols > 15 THEN NarrowNames[getDay(date) + 1]
    ELSE IF totalCols > 7 THEN dayNames[getDay(date) + 1]
    ELSE LongNames[getDay(date) + 1]

\* the quotient is rounded down
LinearColumns_Floor(daysInMonth, gridRows) == daysInMonth \div gridRows

\* Math.ceil(daysInMonth / config.gridRows), for gridRows > 0
LinearColumns(daysInMonth, gridRows) ==
    (daysInMonth + gridRows - 1) \div gridRows

GridColumns(daysInMonth, gridRows) ==
    IF gridRows = 0 THEN 7 ELSE LinearColumns(daysInMonth, gridRows)

\* the loop over the days stops one day early
StandardCells_ShortMonth(daysInMonth, firstDay) ==
    [i \in 1..7 |-> Cell(NullDay, dayNames[i])]
        \o [i \in 1..firstDay |-> BlankCell]
        \o [i \in 1..(daysInMonth - 1) |-> Cell(i, "")]

\* gridRows === 0: the weekday names, firstDay empty cells, the days
StandardCells(daysInMonth, firstDay) ==
    [i \in 1..7 |-> Cell(NullDay, dayNames[i])]
        \o [i \in 1..firstDay |-> BlankCell]
        \o [i \in 1..daysInMonth |-> Cell(i, "")]

\* the labels are those of the days after the days of the row
HeaderRow_NextDay(r, columns, daysInMonth, year, month) ==
    [c \in 1..columns |->
        LET dateNum == r * columns + (c - 1) + 1
        IN  IF dateNum <= daysInMonth
            THEN Cell(NullDay,
                      getDayLabel(DateLocal(year, month, dateNum + 1, 0, 0, 0),
                                  columns))
            ELSE BlankCell]

\* the header row of row r (0-based): a label per day, empty cells after
HeaderRow(r, columns, daysInMonth, year, month) ==
    [c \in 1..columns |->
        LET dateNum == r * columns + (c - 1) + 1
        IN  IF dateNum <= daysInMonth
            THEN Cell(NullDay,
                      getDayLabel(DateLocal(year, month, dateNum, 0, 0, 0),
                                  columns))
            ELSE BlankCell]

\* the last day of the month is taken for a pad cell
DayRow_LastDayBlank(r, columns, daysInMonth) ==
    [c \in 1..columns |->
        LET dateNum == r * columns + (c - 1) + 1
        IN  IF dateNum < daysInMonth THEN Cell(dateNum, "") ELSE BlankCell]

\* the day row of row r (0-based)
DayRow(r, columns, daysInMonth) ==
    [c \in 1..columns |->
        LET dateNum == r * columns + (c - 1) + 1
        IN  IF dateNum <= daysInMonth THEN Cell(dateNum, "") ELSE BlankCell]

\* the rows r .. gridRows - 1 of the linear-strip grid
RECURSIVE LinearRows(_, _, _, _, _, _)
LinearRows(r, gridRows, columns, daysInMonth, year, month) ==
    IF r >= gridRows THEN <<>>
    ELSE HeaderRow(r, columns, daysInMonth, year, month)
            \o DayRow(r, columns, daysInMonth)
            \o LinearRows(r + 1, gridRows, columns, daysInMonth, year, month)

\* the cells array of the grid block
GridCells(daysInMonth, firstDay, gridRows, year, month) ==
    IF gridRows = 0 THEN StandardCells(daysInMonth, firstDay)
    ELSE LinearRows(0, gridRows, LinearColumns(daysInMonth, gridRows),
                    daysInMonth, year, month)

isHeader(cell) == cell.day = NullDay /\ cell.label # ""

isEmpty(cell) == cell.day = BlankDay

(***************************************************************************)
(* Source events handed to the expander.  Their instants are what          *)
(* parseICSDate returns for the DTSTART and DTEND tokens of a document.    *)
(***************************************************************************)
MaxSpanDays == 3       \* all-day sources span 1..MaxSpanDays days
ListLen     == 2       \* length of the multi-event source lists

TitleA == <<"A">>
TitleB == <<"B">>

\* the (month, day) pairs the source events start on
StartDays(y) ==
    { <<1, 1>>, <<2, 28>>, <<7, 4>>, <<12, 31>> }
        \cup (IF CalendarDays(y, 2) = 29 THEN { <<2, 29>> } ELSE {})

\* the date-only token of the n-th day after y-m-d
DateTokenAfter(y, m, d, n) ==
    LET day == MakeDay(y, m - 1, d) + n
    IN  FormatDate(YearFromDay(day), MonthFromDay(day) + 1, DateFromDay(day))

\* the timed token that lies secs seconds after y-m-d h:mi:s
TimedTokenAfter(y, m, d, c, secs) ==
    LET t == MakeDate(MakeDay(y, m - 1, d), MakeTime(c[1], c[2], c[3]) + secs)
    IN  FormatDate(getUTCFullYear(t), getUTCMonth(t) + 1, getUTCDate(t))
            \o FormatTime(getUTCHours(t), getUTCMinutes(t), getUTCSeconds(t))

NoToken == <<"none">>

\* <<year, month, day>> of the days the all-day sources start on
AllDayStarts ==
    UNION { { <<y, md[1], md[2]>> : md \in StartDays(y) } : y \in Years }

\* <<DTSTART token, DTEND token or NoToken>> of the all-day sources
AllDayTokens ==
    { <<FormatDate(s[1], s[2], s[3]), NoToken>> : s \in AllDayStarts }
        \cup { <<FormatDate(x[1][1], x[1][2], x[1][3]),
                 DateTokenAfter(x[1][1], x[1][2], x[1][3], x[2])>>
               : x \in AllDayStarts \X (1..MaxSpanDays) }

Durations == { 3600, 7200 }

\* <<DTSTART token, DTEND token or NoToken>> of the timed sources
TimedSourceTokens ==
    UNION { { << FormatDate(y, md[1], md[2]) \o FormatTime(c[1], c[2], c[3]) \o z,
                 NoToken >> }
            \cup { << FormatDate(y, md[1], md[2])
                         \o FormatTime(c[1], c[2], c[3]) \o z,
                      TimedTokenAfter(y, md[1], md[2], c, secs) \o z >>
                   : secs \in Durations }
          : y \in Years, md \in { <<7, 4>>, <<12, 31>> },
            c \in { <<9, 30, 15>>, <<23, 30, 0>> }, z \in { <<>>, <<"Z">> } }

YearlyRules ==
    { FreqYearly,
      toUpperCase(FreqYearly) \o <<";", "C", "O", "U", "N", "T", "=", "5">>,
      <<"f", "r", "e", "q", "=", "y", "e", "a", "r", "l", "y">> }

OtherRules ==
    { Undefined,
      <<"F", "R", "E", "Q", "=", "W", "E", "E", "K", "L", "Y">>,
      <<"F", "R", "E", "Q", "=", "M", "O", "N", "T", "H", "L", "Y">> }

SourceEventOf(title, toks, rrule) ==
    Event(title, parseICSDate(toks[1]),
          IF toks[2] = NoToken THEN NoDate ELSE parseICSDate(toks[2]),
          Undefined, rrule)

SourceEvents ==
    { SourceEventOf(TitleA, toks, r) :
        toks \in AllDayTokens \cup TimedSourceTokens,
        r \in { FreqYearly, Undefined } }
      \cup
    { SourceEventOf(TitleA, toks, r) :
        toks \in { <<FormatDate(MaxYear, 7, 4), NoToken>>,
                   <<FormatDate(MaxYear, 7, 4), FormatDate(MaxYear, 7, 6)>> },
        r \in YearlyRules \cup OtherRules }

\* the events of the multi-event lists
ListEvents ==
    { SourceEventOf(ti, <<FormatDate(MinYear, 7, 4), NoToken>>, r) :
        ti \in { TitleA, TitleB }, r \in { FreqYearly, Undefined } }

SourceLists ==
    { <<>> } \cup { <<e>> : e \in SourceEvents }
        \cup { l \in [1..ListLen -> ListEvents] : TRUE }

EnvInit ==
    /\ tz \in TzOffsets
    /\ now \in Nows

DateIdle ==
    /\ dToken = <<>>
    /\ dResult = NoDate
    /\ dpc = "idle"

ExpIdle ==
    /\ xEvents = <<>>
    /\ xYear = 0
    /\ xResult = <<>>
    /\ xpc = "idle"

ParseIdle ==
    /\ pData = <<>>
    /\ pLines = <<>>
    /\ pCur = NullEvent
    /\ pEvents = <<>>
    /\ ppc = "idle"

GridIdle ==
    /\ gYear = 0
    /\ gMonth = 0
    /\ gRows = 0
    /\ gShow = FALSE
    /\ gColumns = 0
    /\ gCells = <<>>
    /\ gpc = "idle"

AppIdle ==
    /\ aYear = 0
    /\ aCalendars = <<>>
    /\ aColor = ""
    /\ aReads = <<>>
    /\ aNextId = 0
    /\ aSources = <<>>
    /\ apc = "idle"

\* no message was sent
NoMessage ==
    [event |-> "", calendar_name |-> <<>>, event_count |-> -1, now_active |-> "",
     month |-> -1, file_size |-> -1, setting |-> "", value |-> -1]

\* no user action sent a message
NoCause == [event |-> "", file |-> 0, active |-> FALSE, month |-> -1, image |-> 0, year |-> 0]

SessionIdle ==
    /\ kDev = TRUE
    /\ mYear = 0
    /\ mMonths = <<>>
    /\ mEffect = FALSE
    /\ mReads = <<>>
    /\ mUploads = 0
    /\ kCalendars = <<>>
    /\ kReads = <<>>
    /\ kNextId = 0
    /\ kSent = NoMessage
    /\ kCause = NoCause
    /\ spc = "idle"

\* no page was rendered
NoPage == [currentWidth |-> 0, currentHeight |-> 0, pageScale |-> <<0, 1>>]

\* no PDF was exported
NoPdf == [name |-> <<>>, size |-> <<0, 0>>, config |-> <<>>]

GeoIdle ==
    /\ cConfig = <<>>
    /\ cPage = NoPage
    /\ cContainer = 0
    /\ cPreview = 0
    /\ cEffect = FALSE
    /\ cPdf = NoPdf
    /\ cpc = "idle"

\* DEFAULT_CONFIG.layoutOrder
DefaultLayoutOrder == <<"header", "image", "grid">>

NoMove == [index |-> 0 - 1, direction |-> "none"]

LayoutIdle ==
    /\ lOrder = DefaultLayoutOrder
    /\ lSent = 0
    /\ lPrev = DefaultLayoutOrder
    /\ lLast = NoMove
    /\ lpc = "idle"

DayIdle ==
    /\ yEvents = <<>>
    /\ yMonthEvents = <<>>
    /\ yDayEvents = <<>>
    /\ yShowEvents = TRUE
    /\ yShown = <<>>
    /\ yOverflow = <<>>
    /\ ypc = "idle"

(***************************************************************************)
(* Specification of the recurrence expander: one call.                     *)
(***************************************************************************)
ExpInit ==
    /\ EnvInit
    /\ DateIdle
    /\ ParseIdle
    /\ GridIdle
    /\ AppIdle
    /\ SessionIdle
    /\ GeoIdle
    /\ LayoutIdle
    /\ DayIdle
    /\ xEvents \in SourceLists
    /\ xYear \in Years
    /\ xResult = <<>>
    /\ xpc = "call"

CallExpand ==
    /\ xpc = "call"
    /\ xResult' = expandRecurringForYear(xEvents, xYear)
    /\ xpc' = "done"
    /\ UNCHANGED <<envVars, layoutVars, sessionVars, geoVars, dayVars, dateVars, parseVars, gridVars, appVars, xEvents, xYear>>

\* the caller expands the returned list once more for the same year
CallExpandAgain ==
    /\ xpc = "done"
    /\ xResult' = expandRecurringForYear(xResult, xYear)
    /\ xpc' = "again"
    /\ UNCHANGED <<envVars, layoutVars, sessionVars, geoVars, dayVars, dateVars, parseVars, gridVars, appVars, xEvents, xYear>>

ExpNext == CallExpand \/ CallExpandAgain

ExpSpec == ExpInit /\ [][ExpNext]_vars

\* the call has returned for a source list of exactly one event
ExpandedOne == xpc = "done" /\ Len(xEvents) = 1

\* the source carries a yearly recurrence rule
YearlySource(ev) == ev.rrule \in YearlyRules

\* the source is all-day: its instants fall exactly at midnight UTC
AllDaySource(ev) ==
    /\ ev.startDate.sod = 0
    /\ ev.endDate # NoDate
    /\ ev.endDate.sod = 0

\* C2: an all-day yearly source spanning more than one day expands, for every
\* target year, to an instance whose span in days equals the source's span.
C2_SpanPreserved ==
    (/\ ExpandedOne
     /\ YearlySource(xEvents[1])
     /\ AllDaySource(xEvents[1])
     /\ DiffDays(xEvents[1].endDate, xEvents[1].startDate) > 1)
    => /\ Len(xResult) = 1
       /\ xResult[1].endDate # NoDate
       /\ DiffDays(xResult[1].endDate, xResult[1].startDate)
            = DiffDays(xEvents[1].endDate, xEvents[1].startDate)

\* C4: a source without a yearly rule is in the result, unchanged, if and only
\* if the year of its start equals the target year in the local or in the UTC
\* interpretation; otherwise the result is empty.
C4_NonRecurringEitherYear ==
    (ExpandedOne /\ xEvents[1].rrule \in OtherRules)
    => xResult =
         IF \/ getFullYear(xEvents[1].startDate) = xYear
            \/ getUTCFullYear(xEvents[1].startDate) = xYear
         THEN xEvents ELSE <<>>

\* C5: every source carrying a yearly rule yields, for every target year,
\* exactly one instance, and its start lies in the target year.
C5_YearlyOneInstance ==
    (xpc = "done" /\ \A i \in 1..Len(xEvents) : YearlySource(xEvents[i]))
    => /\ Len(xResult) = Len(xEvents)
       /\ \A i \in 1..Len(xEvents) :
            /\ xResult[i].title = xEvents[i].title
            /\ getUTCFullYear(xResult[i].startDate) = xYear

\* a yearly source of another year than the target has been expanded
C5_Witness ==
    /\ ExpandedOne
    /\ YearlySource(xEvents[1])
    /\ getUTCFullYear(xEvents[1].startDate) > xYear
    /\ getUTCMonth(xEvents[1].startDate) = 1
    /\ getUTCDate(xEvents[1].startDate) = 29
    /\ Len(xResult) = 1

\* C6: an all-day yearly source whose end is exactly one day after its start
\* expands, for every target year, to an instance without an end instant.
C6_OneDayNoEnd ==
    (/\ ExpandedOne
     /\ YearlySource(xEvents[1])
     /\ AllDaySource(xEvents[1])
     /\ DiffDays(xEvents[1].endDate, xEvents[1].startDate) = 1)
    => /\ Len(xResult) = 1
       /\ xResult[1].endDate = NoDate

\* a one-day all-day yearly source of another year has been expanded
C6_Witness ==
    /\ ExpandedOne
    /\ YearlySource(xEvents[1])
    /\ AllDaySource(xEvents[1])
    /\ DiffDays(xEvents[1].endDate, xEvents[1].startDate) = 1
    /\ getUTCFullYear(xEvents[1].startDate) # xYear
    /\ xResult # <<>>

\* the source is yearly and the call has returned for it alone
ExpandedYearly == ExpandedOne /\ YearlySource(xEvents[1]) /\ Len(xResult) = 1

\* the source starts on Feb 29 (UTC) and the target year has no Feb 29
LeapDayToCommonYear ==
    /\ getUTCMonth(xEvents[1].startDate) = 1
    /\ getUTCDate(xEvents[1].startDate) = 29
    /\ ~InLeapYear(xYear)

\* C18 as stated: the start of the instance of a yearly source has the month,
\* the day of the month and the time of day of the source start and the
\* target year, also for a source of Feb 29 and a target year without one.
C18_StartFieldsCopied ==
    ExpandedYearly =>
        /\ getUTCFullYear(xResult[1].startDate) = xYear
        /\ getUTCMonth(xResult[1].startDate) = getUTCMonth(xEvents[1].startDate)
        /\ getUTCDate(xResult[1].startDate) = getUTCDate(xEvents[1].startDate)
        /\ xResult[1].startDate.sod = xEvents[1].startDate.sod

\* C18: the start of the instance of a yearly source has the target year and
\* the UTC month, day of the month and time of day of the source start,
\* except that a source of Feb 29 in a target year without one starts on
\* Mar 1 at the same time of day.
C18_StartFieldsCopiedOrMarchFirst ==
    ExpandedYearly =>
        /\ getUTCFullYear(xResult[1].startDate) = xYear
        /\ xResult[1].startDate.sod = xEvents[1].startDate.sod
        /\ IF LeapDayToCommonYear
           THEN /\ getUTCMonth(xResult[1].startDate) = 2
                /\ getUTCDate(xResult[1].startDate) = 1
           ELSE /\ getUTCMonth(xResult[1].startDate)
                     = getUTCMonth(xEvents[1].startDate)
                /\ getUTCDate(xResult[1].startDate)
                     = getUTCDate(xEvents[1].startDate)

\* a yearly source of Feb 29 was expanded for a year without one: Mar 1
C18_Witness ==
    /\ ExpandedYearly
    /\ LeapDayToCommonYear
    /\ getUTCMonth(xResult[1].startDate) = 2
    /\ getUTCDate(xResult[1].startDate) = 1

\* the seconds from instant a to instant b
SecondsBetween(a, b) == (b.day - a.day) * SecPerDay + (b.sod - a.sod)

\* the source is timed (not all-day) and has an end instant
TimedWithEnd(ev) == ev.endDate # NoDate /\ ~IsAllDay(ev.startDate, ev.endDate)

\* C19: the instance of a timed yearly source with an end instant has an end
\* instant, its duration is the duration of the source, and its end is not
\* earlier than its start.
C19_TimedDurationPreserved ==
    (ExpandedYearly /\ TimedWithEnd(xEvents[1])) =>
        /\ xResult[1].endDate # NoDate
        /\ SecondsBetween(xResult[1].startDate, xResult[1].endDate)
             = SecondsBetween(xEvents[1].startDate, xEvents[1].endDate)
        /\ SecondsBetween(xResult[1].startDate, xResult[1].endDate) >= 0

\* the same for the timed sources that start and end in one UTC year
TimedDurationPreservedWithinYear ==
    (/\ ExpandedYearly /\ TimedWithEnd(xEvents[1])
     /\ getUTCFullYear(xEvents[1].startDate) = getUTCFullYear(xEvents[1].endDate))
    => /\ xResult[1].endDate # NoDate
       /\ SecondsBetween(xResult[1].startDate, xResult[1].endDate)
            = SecondsBetween(xEvents[1].startDate, xEvents[1].endDate)

\* C16: expanding the returned list again for the same year returns the same
\* list, and neither call changes the list it was given.
C16_ExpandIdempotent ==
    [][ /\ (xpc = "done" /\ xpc' = "again") => xResult' = xResult
        /\ xEvents' = xEvents ]_vars

\* a list with a yearly source of another year and a non-recurring event of
\* that year was expanded twice: the instance of the yearly source is what
\* both calls returned
C16_Witness ==
    /\ xpc = "again"
    /\ Len(xEvents) >= 2
    /\ YearlySource(xEvents[1])
    /\ getUTCFullYear(xEvents[1].startDate) # xYear
    /\ ~YearlySource(xEvents[2])
    /\ Len(xResult) = 1
    /\ getUTCFullYear(xResult[1].startDate) = xYear
    /\ xResult[1].title = xEvents[1].title

(***************************************************************************)
(* Documents handed to the event parser: an opening, then up to            *)
(* MaxFreeLines lines drawn freely from a vocabulary of physical lines,    *)
(* then a closing.                                                         *)
(***************************************************************************)
MaxFreeLines == 2

LineBegin     == <<"B", "E", "G", "I", "N", ":", "V", "E", "V", "E", "N", "T">>
LineEnd       == <<"E", "N", "D", ":", "V", "E", "V", "E", "N", "T">>
LineEndLower  == <<"e", "n", "d", ":", "v", "e", "v", "e", "n", "t">>
LineSummaryA  == <<"S", "U", "M", "M", "A", "R", "Y", ":", "A">>
LineSummaryB  == <<"S", "U", "M", "M", "A", "R", "Y", ";", "L", "A", "N", "G", "U", "A", "G", "E", "=", "e", "n", ":", "B", "\\", ",", " ", "C">>
LineSummary0  == <<"S", "U", "M", "M", "A", "R", "Y", ":">>
LineStart     == <<"D", "T", "S", "T", "A", "R", "T", ";", "V", "A", "L", "U", "E", "=", "D", "A", "T", "E", ":", "2", "0", "2", "4", "0", "2", "2", "9">>
LineStartB    == <<"D", "T", "S", "T", "A", "R", "T", ":", "2", "0", "2", "4", "1", "2", "3", "1", "T", "2", "3", "3", "0", "0", "0">>
LineRule      == <<"R", "R", "U", "L", "E", ":", "F", "R", "E", "Q", "=", "Y", "E", "A", "R", "L", "Y">>
LineBlank     == <<>>

LineVocabulary ==
    { LineBegin, LineEnd, LineEndLower, LineSummaryB, LineSummary0,
      LineStartB, LineRule, LineBlank }

\* a complete event block
EventBlock == <<LineBegin, LineSummaryA, LineStart, LineRule, LineEnd>>

\* an event block that is still open
OpenBlock == <<LineBegin, LineSummaryB, LineStartB>>

Openings ==
    { <<>>, <<LineBegin>>, <<LineBegin, LineSummaryA>>,
      <<LineBegin, LineSummaryA, LineStart>>, EventBlock,
      EventBlock \o OpenBlock }

Closings == { <<>>, <<LineEnd>> }

RECURSIVE JoinLines(_)
JoinLines(ls) ==
    IF ls = <<>> THEN <<>>
    ELSE IF Len(ls) = 1 THEN ls[1]
    ELSE ls[1] \o <<"\n">> \o JoinLines(Tail(ls))

FreeLines == UNION { [1..n -> LineVocabulary] : n \in 0..MaxFreeLines }

Documents ==
    { JoinLines(o \o f \o c) : o \in Openings, f \in FreeLines, c \in Closings }

(***************************************************************************)
(* Specification of the event parser: one call of parseICS, read line by   *)
(* line.                                                                   *)
(***************************************************************************)
ParseInit ==
    /\ EnvInit
    /\ DateIdle
    /\ ExpIdle
    /\ GridIdle
    /\ AppIdle
    /\ SessionIdle
    /\ GeoIdle
    /\ LayoutIdle
    /\ DayIdle
    /\ pData \in Documents
    /\ pLines = <<>>
    /\ pCur = NullEvent
    /\ pEvents = <<>>
    /\ ppc = "call"

\* unfold and split the document, start with no open event
StartParse ==
    /\ ppc = "call"
    /\ pLines' = SplitLines(Unfold(pData))
    /\ pCur' = NullEvent
    /\ pEvents' = <<>>
    /\ ppc' = "loop"
    /\ UNCHANGED <<envVars, layoutVars, sessionVars, geoVars, dayVars, dateVars, expVars, gridVars, appVars, pData>>

\* one iteration of the loop over the lines
ReadLine ==
    /\ ppc = "loop"
    /\ pLines # <<>>
    /\ LET st == ParseLine(pCur, pEvents, Head(pLines))
       IN  /\ pCur' = st[1]
           /\ pEvents' = st[2]
    /\ pLines' = Tail(pLines)
    /\ UNCHANGED <<envVars, layoutVars, sessionVars, geoVars, dayVars, dateVars, expVars, gridVars, appVars, pData, ppc>>

\* the loop is over: return events
ReturnEvents ==
    /\ ppc = "loop"
    /\ pLines = <<>>
    /\ ppc' = "done"
    /\ UNCHANGED <<envVars, layoutVars, sessionVars, geoVars, dayVars, dateVars, expVars, gridVars, appVars, pData, pLines, pCur, pEvents>>

ParseNext == StartParse \/ ReadLine \/ ReturnEvents

ParseSpec == ParseInit /\ [][ParseNext]_vars

\* the line about to be read is an END:VEVENT marker
AtEndMarker ==
    /\ ppc = "loop"
    /\ pLines # <<>>
    /\ toUpperCase(Head(pLines)) = LineEnd

\* the open accumulator has a non-empty title and a start instant
Complete(cur) ==
    /\ cur.open
    /\ cur.title # Undefined
    /\ Len(cur.title) > 0
    /\ cur.startDate # NoDate

\* C3: an END:VEVENT line appends the open accumulator only if it has a
\* non-empty title and a start instant, otherwise appends nothing; either way
\* the accumulator is closed and parsing goes on with the next line.
C3_EndCommitsOnlyComplete ==
    [][ AtEndMarker =>
          /\ pEvents' = IF Complete(pCur)
                        THEN Append(pEvents, AsCalendarEvent(pCur))
                        ELSE pEvents
          /\ pCur' = NullEvent
          /\ pLines' = Tail(pLines)
          /\ ppc' = "loop" ]_vars

\* the first END:VEVENT of a document has committed an event, and its second
\* END:VEVENT has dropped an accumulator whose title was empty
C3_Witness ==
    /\ pData = JoinLines(EventBlock \o OpenBlock \o <<LineSummary0, LineEnd>>)
    /\ ppc = "loop"
    /\ pLines = <<>>
    /\ pCur = NullEvent
    /\ Len(pEvents) = 1
    /\ pEvents[1].title = <<"A">>

\* the line about to be read is a BEGIN:VEVENT marker
AtBeginMarker ==
    /\ ppc = "loop"
    /\ pLines # <<>>
    /\ toUpperCase(Head(pLines)) = LineBegin

\* C23: there is one accumulator, open or none; a BEGIN:VEVENT line replaces
\* it by an empty open accumulator and appends nothing, so that no field set
\* before the marker is in an event returned later: from an open
\* accumulator the rest of the run returns what it returns from none.
C23_BeginDiscardsAccumulator ==
    [][ AtBeginMarker =>
          /\ pCur' = EmptyEvent
          /\ pEvents' = pEvents
          /\ pLines' = Tail(pLines)
          /\ ppc' = "loop"
          /\ pCur.open =>
                ParseLines(pCur, pEvents, pLines)
                   = ParseLines(NullEvent, pEvents, pLines) ]_vars

\* BEGIN:VEVENT was read while the accumulator held the title A and a start
\* instant: the accumulator is empty again, nothing was returned
C23_Witness ==
    /\ ppc = "loop"
    /\ pData = JoinLines(<<LineBegin, LineSummaryA, LineStart,
                           LineBegin, LineStartB, LineEnd>>)
    /\ pLines = <<LineStartB, LineEnd>>
    /\ pCur = EmptyEvent
    /\ pEvents = <<>>

(***************************************************************************)
(* Specification of the month grid: one rendering of the grid block of a   *)
(* month page.                                                             *)
(***************************************************************************)
MaxGridRows   == 9     \* config.gridRows ranges over 0..MaxGridRows
GridYearsBack == 27    \* the pages are those of MinYear - GridYearsBack .. MaxYear

GridYears == (MinYear - GridYearsBack)..MaxYear

GridInit ==
    /\ EnvInit
    /\ DateIdle
    /\ ExpIdle
    /\ ParseIdle
    /\ AppIdle
    /\ SessionIdle
    /\ GeoIdle
    /\ LayoutIdle
    /\ DayIdle
    /\ gYear \in GridYears
    /\ gMonth \in 0..11
    /\ gRows \in 0..MaxGridRows
    /\ gShow \in BOOLEAN
    /\ gColumns = 0
    /\ gCells = <<>>
    /\ gpc = "render"

\* renderBlock('grid') with the grid shown
RenderGrid ==
    /\ gpc = "render"
    /\ gShow
    /\ LET daysInMonth == getDaysInMonth(gMonth, gYear)
           firstDay    == getFirstDayOfMonth(gMonth, gYear)
       IN  /\ gColumns' = GridColumns(daysInMonth, gRows)
           /\ gCells' = GridCells(daysInMonth, firstDay, gRows, gYear, gMonth)
    /\ gpc' = "done"
    /\ UNCHANGED <<envVars, layoutVars, sessionVars, geoVars, dayVars, dateVars, expVars, parseVars, appVars,
                   gYear, gMonth, gRows, gShow>>

\* renderBlock('grid') with config.showGrid off: nothing is rendered
RenderNoGrid ==
    /\ gpc = "render"
    /\ ~gShow
    /\ gpc' = "done"
    /\ UNCHANGED <<envVars, layoutVars, sessionVars, geoVars, dayVars, dateVars, expVars, parseVars, appVars,
                   gYear, gMonth, gRows, gShow, gColumns, gCells>>

GridNext == RenderGrid \/ RenderNoGrid

GridSpec == GridInit /\ [][GridNext]_vars

\* the month of the page: its day count and the weekday of its first day
PageDays == CalendarDays(gYear, gMonth + 1)

PageFirstWeekday == WeekDay(MakeDay(gYear, gMonth, 1))

CeilDiv(a, b) == (a + b - 1) \div b

\* the grid of the page has been rendered
Rendered == gpc = "done" /\ gShow

Blank(cell) == cell.day < 0

Header(cell) == cell.day = 0 /\ cell.label # ""

\* C7 (as claimed): the number of cells emitted is columns x rows, with
\* columns = 7 and rows = ceil((daysInMonth + firstWeekday) / 7) in standard
\* mode, rows = the row count and columns = ceil(daysInMonth / rows) in
\* linear-strip mode.
C7_CellCountColumnsTimesRows ==
    Rendered =>
        Len(gCells) =
            IF gRows = 0 THEN 7 * CeilDiv(PageDays + PageFirstWeekday, 7)
            ELSE CeilDiv(PageDays, gRows) * gRows

\* C7 (amended): standard mode emits 7 + firstWeekday + daysInMonth cells in
\* 7 columns (the header row, the leading blanks and the days, no trailing
\* pad, so never more than 7 x (rows + 1)); linear-strip mode emits
\* 2 x rows x columns cells, columns = ceil(daysInMonth / rows).
C7_CellCount ==
    Rendered =>
        IF gRows = 0
        THEN /\ gColumns = 7
             /\ Len(gCells) = 7 + PageFirstWeekday + PageDays
             /\ Len(gCells)
                    <= 7 * (CeilDiv(PageDays + PageFirstWeekday, 7) + 1)
        ELSE /\ gColumns = CeilDiv(PageDays, gRows)
             /\ Len(gCells) = 2 * gRows * gColumns

\* a 30-day month has been laid out as a strip of 4 rows of 8 columns
C7_Witness ==
    /\ Rendered
    /\ gRows = 4
    /\ PageDays = 30
    /\ gColumns = 8
    /\ Len(gCells) = 64

\* the day numbers of the day cells, in order
RECURSIVE DaysOf(_)
DaysOf(cells) ==
    IF cells = <<>> THEN <<>>
    ELSE (IF Head(cells).day > 0 THEN <<Head(cells).day>> ELSE <<>>)
            \o DaysOf(Tail(cells))

\* C8: in standard mode the cells are the 7 weekday headers Sun..Sat, then
\* firstWeekday blanks, then the days 1..daysInMonth in order, then only
\* trailing pad cells; the day cells are exactly 1..daysInMonth.
C8_StandardSequence ==
    (Rendered /\ gRows = 0) =>
        LET fd  == PageFirstWeekday
            dim == PageDays
        IN  /\ Len(gCells) >= 7 + fd + dim
            /\ \A i \in 1..7 :
                   Header(gCells[i]) /\ gCells[i].label = dayNames[i]
            /\ \A i \in 8..(7 + fd) : Blank(gCells[i])
            /\ \A d \in 1..dim : gCells[7 + fd + d].day = d
            /\ \A i \in (7 + fd + dim + 1)..Len(gCells) : Blank(gCells[i])
            /\ DaysOf(gCells) = [d \in 1..dim |-> d]

\* the standard grid of a 29-day month that starts on a Thursday
C8_Witness ==
    /\ Rendered
    /\ gRows = 0
    /\ PageDays = 29
    /\ PageFirstWeekday = 4
    /\ gCells[12].day = 1

\* the cells of the p-th (header row, day row) pair, p in 1..R
PairCells(p) == SubSeq(gCells, 2 * gColumns * (p - 1) + 1, 2 * gColumns * p)

HasBlank(cells) == \E i \in 1..Len(cells) : Blank(cells[i])

\* the layout is R pairs of a header row and a day row of equal length
RowPairs ==
    /\ Len(gCells) = 2 * gColumns * gRows
    /\ \A p \in 1..gRows :
        /\ \A i \in 1..gColumns : PairCells(p)[i].day <= 0
        /\ \A i \in (gColumns + 1)..(2 * gColumns) : PairCells(p)[i].day # 0

\* C9 (as claimed): in linear-strip mode there are exactly R pairs of rows and
\* blank cells occur only in the final pair.
C9_BlanksOnlyInFinalPair ==
    (Rendered /\ gRows >= 1) =>
        /\ RowPairs
        /\ \A p \in 1..(gRows - 1) : ~HasBlank(PairCells(p))

\* C9 (amended): there are exactly R pairs of rows; the first
\* floor(daysInMonth / columns) pairs have no blank cell, and when
\* columns x (R - 1) <= daysInMonth blank cells occur only in the final pair.
C9_BlanksAfterLastDay ==
    (Rendered /\ gRows >= 1) =>
        /\ RowPairs
        /\ \A p \in 1..gRows :
               HasBlank(PairCells(p)) => p > PageDays \div gColumns
        /\ (gColumns * (gRows - 1) <= PageDays =>
               \A p \in 1..(gRows - 1) : ~HasBlank(PairCells(p)))

\* a 31-day month in 4 rows of 8 columns: one blank, in the final pair
C9_Witness ==
    /\ Rendered
    /\ gRows = 4
    /\ PageDays = 31
    /\ ~HasBlank(PairCells(3))
    /\ HasBlank(PairCells(4))

\* the header cell and the day cell of column c of the p-th pair of rows
HeaderAt(p, c) == gCells[2 * gColumns * (p - 1) + c]

DayAt(p, c) == gCells[2 * gColumns * (p - 1) + gColumns + c]

\* C22: in linear-strip mode with R >= 1 rows and columns =
\* ceil(daysInMonth / R) every header row is immediately followed by a day
\* row of the same length; under each header cell is the day cell of the day
\* the header is labelled for, under each blank a blank; over all rows the
\* day cells are the days 1..daysInMonth, each once, in increasing order.
C22_HeaderOverDayRows ==
    (Rendered /\ gRows >= 1) =>
        /\ gColumns = CeilDiv(PageDays, gRows)
        /\ Len(gCells) = 2 * gColumns * gRows
        /\ \A p \in 1..gRows : \A c \in 1..gColumns :
               \A h \in {HeaderAt(p, c)}, d \in {DayAt(p, c)} :
                   \/ Blank(h) /\ Blank(d)
                   \/ /\ Header(h)
                      /\ d.day \in 1..PageDays
                      /\ d.label = ""
                      /\ h.label =
                           getDayLabel(DateLocal(gYear, gMonth, d.day, 0, 0, 0),
                                       gColumns)
        /\ DaysOf(gCells) = [d \in 1..PageDays |-> d]

\* a 31-day month in 4 rows of 8 columns: day 9 opens the second day row
\* under a header, the last cells of the fourth pair are blank
C22_Witness ==
    /\ Rendered
    /\ gRows = 4
    /\ PageDays = 31
    /\ gColumns = 8
    /\ Header(HeaderAt(2, 1))
    /\ DayAt(2, 1).day = 9
    /\ Blank(HeaderAt(4, 8))
    /\ Blank(DayAt(4, 8))

(***************************************************************************)
(* App: the calendar sources and the configured year.                      *)
(***************************************************************************)
MaxImports == 2        \* at most MaxImports files are uploaded in a run

DotIcs == <<".", "i", "c", "s">>

\* s.replace(w, ''): the first occurrence of w is removed
RemoveFirst(s, w) ==
    IF Contains(s, w)
    THEN LET i == CHOOSE k \in 1..Len(s) :
                    /\ SubSeq(s, k, k + Len(w) - 1) = w
                    /\ \A j \in 1..(k - 1) : SubSeq(s, j, j + Len(w) - 1) # w
         IN  SubSeq(s, 1, i - 1) \o SubSeq(s, i + Len(w), Len(s))
    ELSE s

\* the files the user uploads
FileYearly == [name |-> <<"b", "i", "r", "t", "h", "d", "a", "y", "s", ".", "i", "c", "s">>, content |-> JoinLines(EventBlock)]

FileOnce ==
    [name |-> <<"p", "a", "r", "t", "y", ".", "i", "c", "s">>, content |-> JoinLines(OpenBlock \o <<LineEnd>>)]

\* a file is referred to by its position in this list
Files == <<FileYearly, FileOnce>>

\* the local zone of the environment the application runs in
AppTzOffsets == {-28800}

\* the years the year input of the application is set to
AppYears == {MinYear, MaxYear}

Colors == { "#8295AF", "#6366f1" }

\* the calendar source built by reader.onload
NewCalendar(id, file, year, color) ==
    [id |-> id,
     name |-> RemoveFirst(file.name, DotIcs),
     events |-> expandRecurringForYear(parseICS(file.content), year),
     active |-> TRUE,
     color |-> color]

\* { ...event, calendarId: cal.id, calendarColor: cal.color }
Tagged(event, cal) ==
    [title |-> event.title, startDate |-> event.startDate,
     endDate |-> event.endDate, description |-> event.description,
     rrule |-> event.rrule, calendarId |-> cal.id, calendarColor |-> cal.color]

TaggedEvents(events, cal) == [i \in 1..Len(events) |-> Tagged(events[i], cal)]

\* the active flag is not looked at
RECURSIVE FlatMapActive_All(_)
FlatMapActive_All(cals) ==
    IF cals = <<>> THEN <<>>
    ELSE TaggedEvents(Head(cals).events, Head(cals)) \o FlatMapActive_All(Tail(cals))

\* calendars.filter(cal => cal.active).flatMap(...)
RECURSIVE FlatMapActive(_)
FlatMapActive(cals) ==
    IF cals = <<>> THEN <<>>
    ELSE (IF Head(cals).active THEN TaggedEvents(Head(cals).events, Head(cals))
          ELSE <<>>) \o FlatMapActive(Tail(cals))

\* the events handed to every month page
activeEvents == FlatMapActive(aCalendars)

AppInit ==
    /\ tz \in AppTzOffsets
    /\ now \in Nows
    /\ DateIdle
    /\ ExpIdle
    /\ ParseIdle
    /\ GridIdle
    /\ SessionIdle
    /\ GeoIdle
    /\ LayoutIdle
    /\ DayIdle
    /\ aYear \in AppYears
    /\ aCalendars = <<>>
    /\ aColor = "#8295AF"
    /\ aReads = <<>>
    /\ aNextId = 0
    /\ aSources = <<>>
    /\ apc = "run"

AppFrame == UNCHANGED <<envVars, layoutVars, sessionVars, geoVars, dayVars, dateVars, expVars, parseVars, gridVars, apc>>

\* handleFileUpload: the read starts; its handler sees this render's config
\* and pendingCalendarColor
handleFileUpload(file) ==
    /\ apc = "run"
    /\ aNextId + Len(aReads) < MaxImports
    /\ aReads' = Append(aReads, [file |-> file, year |-> aYear, color |-> aColor])
    /\ UNCHANGED <<aYear, aCalendars, aColor, aNextId, aSources>>
    /\ AppFrame

\* reader.onload of the i-th read in flight: parse, expand, add the calendar
ReaderOnLoad(i) ==
    /\ apc = "run"
    /\ i \in 1..Len(aReads)
    /\ LET rd == aReads[i]
           id == aNextId + 1
       IN  /\ aCalendars' =
                Append(aCalendars,
                       NewCalendar(id, Files[rd.file], rd.year, rd.color))
           /\ aSources' = Append(aSources, rd.file)
           /\ aNextId' = id
    /\ aReads' = SubSeq(aReads, 1, i - 1) \o SubSeq(aReads, i + 1, Len(aReads))
    /\ UNCHANGED <<aYear, aColor>>
    /\ AppFrame

\* updateConfig('year', y) from the year input
SetYear(y) ==
    /\ apc = "run"
    /\ y # aYear
    /\ aYear' = y
    /\ UNCHANGED <<aCalendars, aColor, aReads, aNextId, aSources>>
    /\ AppFrame

\* setPendingCalendarColor from the color picker of the import control
SetPendingColor(c) ==
    /\ apc = "run"
    /\ c # aColor
    /\ aColor' = c
    /\ UNCHANGED <<aYear, aCalendars, aReads, aNextId, aSources>>
    /\ AppFrame

\* the flag of every calendar is flipped
ToggledCalendars_All(cals, id) ==
    [i \in 1..Len(cals) |-> [cals[i] EXCEPT !.active = ~cals[i].active]]

\* prev.map(cal => cal.id === id ? { ...cal, active: !cal.active } : cal)
ToggledCalendars(cals, id) ==
    [i \in 1..Len(cals) |->
        IF cals[i].id = id THEN [cals[i] EXCEPT !.active = ~cals[i].active]
        ELSE cals[i]]

toggleCalendar(id) ==
    /\ apc = "run"
    /\ \E i \in 1..Len(aCalendars) : aCalendars[i].id = id
    /\ aCalendars' = ToggledCalendars(aCalendars, id)
    /\ UNCHANGED <<aYear, aColor, aReads, aNextId, aSources>>
    /\ AppFrame

updateCalendarColor(id, color) ==
    /\ apc = "run"
    /\ \E i \in 1..Len(aCalendars) :
          aCalendars[i].id = id /\ aCalendars[i].color # color
    /\ aCalendars' =
         [i \in 1..Len(aCalendars) |->
            IF aCalendars[i].id = id
            THEN [aCalendars[i] EXCEPT !.color = color]
            ELSE aCalendars[i]]
    /\ UNCHANGED <<aYear, aColor, aReads, aNextId, aSources>>
    /\ AppFrame

deleteCalendar(id) ==
    /\ apc = "run"
    /\ \E i \in 1..Len(aCalendars) : aCalendars[i].id = id
    /\ LET Keeps(cal) == cal.id # id
       IN  aCalendars' = SelectSeq(aCalendars, Keeps)
    /\ UNCHANGED <<aYear, aColor, aReads, aNextId, aSources>>
    /\ AppFrame

AppNext ==
    \/ \E file \in 1..Len(Files) : handleFileUpload(file)
    \/ \E i \in 1..MaxImports : ReaderOnLoad(i)
    \/ \E y \in AppYears : SetYear(y)
    \/ \E c \in Colors : SetPendingColor(c)
    \/ \E id \in 1..MaxImports : toggleCalendar(id)
    \/ \E id \in 1..MaxImports, c \in Colors : updateCalendarColor(id, c)
    \/ \E id \in 1..MaxImports : deleteCalendar(id)

AppSpec == AppInit /\ [][AppNext]_vars

\* the step keeps the calendars in their places, with their ids, names and
\* event lists
SamePlaces ==
    /\ Len(aCalendars') = Len(aCalendars)
    /\ \A i \in 1..Len(aCalendars) :
          /\ aCalendars'[i].id = aCalendars[i].id
          /\ aCalendars'[i].name = aCalendars[i].name
          /\ aCalendars'[i].events = aCalendars[i].events

\* C27: toggleCalendar(id) flips the active flag of the calendar with that
\* id and nothing else, updateCalendarColor(id, c) sets the color of that
\* calendar and nothing else, deleteCalendar(id) removes that calendar and
\* leaves the others as they are, in their order; no step changes the id or
\* the event list of a calendar.
C27_OnlyTargetChanges ==
    [][ /\ \A id \in 1..MaxImports :
             toggleCalendar(id) =>
                /\ SamePlaces
                /\ \A i \in 1..Len(aCalendars) :
                      /\ aCalendars'[i].color = aCalendars[i].color
                      /\ aCalendars'[i].active =
                            IF aCalendars[i].id = id THEN ~aCalendars[i].active
                            ELSE aCalendars[i].active
        /\ \A id \in 1..MaxImports : \A c \in Colors :
             updateCalendarColor(id, c) =>
                /\ SamePlaces
                /\ \A i \in 1..Len(aCalendars) :
                      /\ aCalendars'[i].active = aCalendars[i].active
                      /\ aCalendars'[i].color =
                            IF aCalendars[i].id = id THEN c
                            ELSE aCalendars[i].color
        /\ \A id \in 1..MaxImports :
             deleteCalendar(id) =>
                \E k \in 1..Len(aCalendars) :
                   /\ aCalendars[k].id = id
                   /\ aCalendars' = SubSeq(aCalendars, 1, k - 1)
                                      \o SubSeq(aCalendars, k + 1, Len(aCalendars))
        /\ \A i \in 1..Len(aCalendars) : \A j \in 1..Len(aCalendars') :
             aCalendars'[j].id = aCalendars[i].id =>
                /\ aCalendars'[j].events = aCalendars[i].events
                /\ aCalendars'[j].name = aCalendars[i].name ]_vars

\* of two calendars the first was deleted; the second was switched off and
\* has another color than the first had
C27_Witness ==
    /\ apc = "run"
    /\ aNextId = 2
    /\ Len(aCalendars) = 1
    /\ aCalendars[1].id = 2
    /\ ~aCalendars[1].active
    /\ aCalendars[1].color = "#6366f1"
    /\ aCalendars[1].events # <<>>

\* the events of the active calendars' documents, expanded for year y
RECURSIVE ExpandedFor(_, _)
ExpandedFor(cals, y) ==
    IF cals = <<>> THEN <<>>
    ELSE (IF Head(cals).active
          THEN TaggedEvents(
                   expandRecurringForYear(
                       parseICS(Files[aSources[Head(cals).id]].content), y),
                   Head(cals))
          ELSE <<>>) \o ExpandedFor(Tail(cals), y)

\* C1: after any sequence of imports and year changes, the events shown on
\* the month pages for the configured year Y are the expansion for Y of the
\* parsed source events of every active calendar.
C1_ShownEventsAreOfConfiguredYear ==
    apc = "run" => activeEvents = ExpandedFor(aCalendars, aYear)

\* the number of events the active calendars before position k hold
RECURSIVE ShownBefore(_)
ShownBefore(k) ==
    IF k <= 1 THEN 0
    ELSE ShownBefore(k - 1)
            + (IF aCalendars[k - 1].active THEN Len(aCalendars[k - 1].events) ELSE 0)

\* the calendar with this id is in the list
HasCalendar(id) == \E k \in 1..Len(aCalendars) : aCalendars[k].id = id

\* C14: the events handed to the month pages are exactly the events of the
\* calendars whose active flag is true, in calendar-list order and within a
\* calendar in its event order, each tagged with its calendar's id and color;
\* no event of an inactive calendar is among them; toggling a calendar twice
\* gives the same shown events again.
C14_ShownAreActiveInOrder ==
    apc = "run" =>
        /\ Len(activeEvents) = ShownBefore(Len(aCalendars) + 1)
        /\ \A k \in 1..Len(aCalendars) :
              aCalendars[k].active =>
                 \A j \in 1..Len(aCalendars[k].events) :
                    activeEvents[ShownBefore(k) + j]
                        = Tagged(aCalendars[k].events[j], aCalendars[k])
        /\ \A k \in 1..Len(aCalendars) :
              ~aCalendars[k].active =>
                 \A p \in 1..Len(activeEvents) :
                    activeEvents[p].calendarId # aCalendars[k].id
        /\ \A id \in 1..MaxImports :
              HasCalendar(id) =>
                 /\ (\E k \in 1..Len(aCalendars) :
                        aCalendars[k].id = id /\ aCalendars[k].events # <<>>)
                       => FlatMapActive(ToggledCalendars(aCalendars, id)) # activeEvents
                 /\ FlatMapActive(ToggledCalendars(ToggledCalendars(aCalendars, id), id))
                       = activeEvents

\* two calendars were imported, the first was toggled inactive: only the
\* events of the second are shown
C14_Witness ==
    /\ apc = "run"
    /\ Len(aCalendars) = 2
    /\ ~aCalendars[1].active
    /\ aCalendars[1].events # <<>>
    /\ aCalendars[2].active
    /\ activeEvents = TaggedEvents(aCalendars[2].events, aCalendars[2])
    /\ activeEvents # <<>>

(***************************************************************************)
(* Specification of the date normaliser: one call of parseICSDate.         *)
(***************************************************************************)
DateInit ==
    /\ EnvInit
    /\ dToken \in DateTokens
    /\ dResult = NoDate
    /\ dpc = "call"
    /\ ExpIdle
    /\ ParseIdle
    /\ GridIdle
    /\ AppIdle
    /\ SessionIdle
    /\ GeoIdle
    /\ LayoutIdle
    /\ DayIdle

CallParseICSDate ==
    /\ dpc = "call"
    /\ dResult' = parseICSDate(dToken)
    /\ dpc' = "done"
    /\ UNCHANGED <<envVars, layoutVars, sessionVars, geoVars, dayVars, expVars, parseVars, gridVars, appVars, dToken>>

DateNext == CallParseICSDate

DateSpec == DateInit /\ [][DateNext]_vars

\* the year, month and day the digits of a date token spell
TokenYear(t)  == parseInt(SubSeq(t, 1, 4))

TokenMonth(t) == parseInt(SubSeq(t, 5, 6))

TokenDay(t)   == parseInt(SubSeq(t, 7, 8))

\* the instant is midnight UTC of the date the token spells
SpellsDate(t, d) ==
    /\ d.sod = 0
    /\ getUTCFullYear(d) = TokenYear(t)
    /\ getUTCMonth(d) + 1 = TokenMonth(t)
    /\ getUTCDate(d) = TokenDay(t)

\* C10: for every valid date-only token YYYYMMDD, parseICSDate returns midnight
\* UTC of that date: its UTC year, month and day are YYYY, MM and DD.
C10_DateOnlyRoundTrip ==
    (dpc = "done" /\ dToken \in ValidDateTokens) => SpellsDate(dToken, dResult)

\* the round trip of the date-only tokens of the years 0100 and later
DateOnlyRoundTripFrom100 ==
    (dpc = "done" /\ dToken \in ValidDateTokens /\ TokenYear(dToken) >= 100)
        => SpellsDate(dToken, dResult)

\* the timed tokens that name a real calendar date
ValidTimedTokens ==
    { t \in TimedTokens \cup EarlyTimedTokens :
        TokenDay(t) <= CalendarDays(TokenYear(t), TokenMonth(t)) }

\* the calendar and clock fields of the instant, in UTC or in the local
\* zone, are the digits of the timed token
SpellsInstant(t, d) ==
    IF Len(t) >= 16 /\ t[16] = "Z"
    THEN /\ getUTCFullYear(d) = TokenYear(t)
         /\ getUTCMonth(d) + 1 = TokenMonth(t)
         /\ getUTCDate(d) = TokenDay(t)
         /\ getUTCHours(d) = parseInt(SubSeq(t, 10, 11))
         /\ getUTCMinutes(d) = parseInt(SubSeq(t, 12, 13))
         /\ getUTCSeconds(d) = parseInt(SubSeq(t, 14, 15))
    ELSE /\ getFullYear(d) = TokenYear(t)
         /\ getMonth(d) + 1 = TokenMonth(t)
         /\ getDate(d) = TokenDay(t)
         /\ getHours(d) = parseInt(SubSeq(t, 10, 11))
         /\ getMinutes(d) = parseInt(SubSeq(t, 12, 13))
         /\ getSeconds(d) = parseInt(SubSeq(t, 14, 15))

\* C26: for every token with a time part YYYYMMDDTHHMMSS the instant
\* parseICSDate returns has the calendar and clock fields the digits spell,
\* in UTC when the token ends with Z and in the local zone when it does not,
\* in every local zone.
C26_TimedFieldsAreLiteral ==
    (dpc = "done" /\ dToken \in ValidTimedTokens) => SpellsInstant(dToken, dResult)

\* the same for the timed tokens of the years 0100 and later
TimedFieldsAreLiteralFrom100 ==
    (dpc = "done" /\ dToken \in ValidTimedTokens /\ TokenYear(dToken) >= 100)
        => SpellsInstant(dToken, dResult)

(***************************************************************************)
(* Documents with lines that belong to no event: lines before the first    *)
(* event, an alarm block nested in the event, keys the parser does not     *)
(* know, a date token that cannot be read; a later event follows.          *)
(***************************************************************************)
LineBeginAlarm == <<"B", "E", "G", "I", "N", ":", "V", "A", "L", "A", "R", "M">>
LineEndAlarm == <<"E", "N", "D", ":", "V", "A", "L", "A", "R", "M">>
LineDescR == <<"D", "E", "S", "C", "R", "I", "P", "T", "I", "O", "N", ":", "R">>
LineSummaryZ == <<"S", "U", "M", "M", "A", "R", "Y", ":", "Z">>
LineUnknown == <<"X", "-", "K", ":", "1">>
LineStartBad == <<"D", "T", "S", "T", "A", "R", "T", ":", "T", "B", "D">>
LineEndBad == <<"D", "T", "E", "N", "D", ":", "n", "/", "a">>
LineNoColon == <<"S", "T", "A", "T", "U", "S">>
LineBeginZone == <<"B", "E", "G", "I", "N", ":", "V", "T", "I", "M", "E", "Z", "O", "N", "E">>
LineEndZone == <<"E", "N", "D", ":", "V", "T", "I", "M", "E", "Z", "O", "N", "E">>

\* lines before the first event
Prefaces ==
    { <<>>, <<LineSummaryB, LineBeginZone, LineStartB, LineEndZone>> }

FirstStarts == { LineStart, LineStartBad }

\* an alarm block nested in the event
Alarms ==
    { <<>>,
      <<LineBeginAlarm, LineDescR, LineEndAlarm>>,
      <<LineBeginAlarm, LineSummaryB, LineUnknown, LineEndAlarm>> }

InnerVocabulary == { LineUnknown, LineEndBad, LineRule, LineNoColon }

InnerLines == UNION { [1..n -> InnerVocabulary] : n \in 0..MaxFreeLines }

\* the event that follows the first one
LaterBlock == <<LineBegin, LineSummaryZ, LineStartB, LineEnd>>

Afterwords == { <<>>, <<LineDescR>> }

BlockDocuments ==
    { JoinLines(p \o <<LineBegin, LineSummaryA, st>> \o al \o f \o <<LineEnd>>
                  \o LaterBlock \o a) :
        p \in Prefaces, st \in FirstStarts, al \in Alarms,
        f \in InnerLines, a \in Afterwords }

(***************************************************************************)
(* Specification of the event parser over these documents.                 *)
(***************************************************************************)
BlockInit ==
    /\ EnvInit
    /\ DateIdle
    /\ ExpIdle
    /\ GridIdle
    /\ AppIdle
    /\ SessionIdle
    /\ GeoIdle
    /\ LayoutIdle
    /\ DayIdle
    /\ pData \in BlockDocuments
    /\ pLines = <<>>
    /\ pCur = NullEvent
    /\ pEvents = <<>>
    /\ ppc = "call"

BlockSpec == BlockInit /\ [][ParseNext]_vars

\* the typed error the specification names for a token that cannot be read
DateParseError == "DateParseError"

\* the token neither matches YYYYMMDD[THHMMSS[Z]] nor holds 8 digits in a row
TotalFailure(token) ==
    /\ ~StrictMatch(Trim(token))
    /\ \A i \in 1..Len(token) : ~AllDigits(token, i, i + 7)

\* the line about to be read sets a date field of the open event from a
\* token that cannot be read
AtBadDate ==
    /\ ppc = "loop"
    /\ pLines # <<>>
    /\ pCur.open
    /\ ~Skipped(Head(pLines))
    /\ KeyOf(Head(pLines)) \in {KeyDTSTART, KeyDTEND}
    /\ TotalFailure(ValueOf(Head(pLines)))

\* the accumulator with the date field named by the key set to d
WithDate(cur, key, d) ==
    IF key = KeyDTSTART THEN [cur EXCEPT !.startDate = d]
    ELSE [cur EXCEPT !.endDate = d]

\* what parseICS returns for the event that follows the first one
LaterEvent ==
    Event(<<"Z">>, parseICSDate(ValueOf(LineStartB)), NoDate, Undefined, Undefined)

\* the parse came to its end and returned the later event
LaterEventReturned ==
    ppc = "done" => (pEvents # <<>> /\ pEvents[Len(pEvents)] = LaterEvent)

\* C11 as stated: for a token that cannot be read the date normaliser fails
\* with a DateParseError, the parser puts the current instant in the date
\* field, and the parse goes on.
C11_FailsWithDateParseError ==
    [][ AtBadDate =>
          /\ ReturnSite(ValueOf(Head(pLines))) = DateParseError
          /\ pCur' = WithDate(pCur, KeyOf(Head(pLines)), now)
          /\ pLines' = Tail(pLines)
          /\ ppc' = "loop" ]_vars

\* C11: for a token that cannot be read the date normaliser itself returns
\* the current instant (it raises no error), the date field of the open event
\* holds that instant, the parse goes on with the next line, and the later
\* event of the document is returned.
C11_CurrentInstantSubstituted ==
    /\ [][ AtBadDate =>
             /\ ReturnSite(ValueOf(Head(pLines))) = "return new Date()"
             /\ pCur' = WithDate(pCur, KeyOf(Head(pLines)), now)
             /\ pEvents' = pEvents
             /\ pLines' = Tail(pLines)
             /\ ppc' = "loop" ]_vars
    /\ []LaterEventReturned

\* a document whose first event has DTSTART:TBD was parsed to its end: the
\* first event starts at the current instant and the later event is returned
C11_Witness ==
    /\ ppc = "done"
    /\ pData = JoinLines(<<LineBegin, LineSummaryA, LineStartBad, LineEnd>>
                           \o LaterBlock)
    /\ Len(pEvents) = 2
    /\ pEvents[1].title = <<"A">>
    /\ pEvents[1].startDate = now
    /\ pEvents[2] = LaterEvent

\* the keys the parser acts on inside an event
RecognizedKeys ==
    { KeySUMMARY, KeyRRULE, KeyDTSTART, KeyDTEND, KeyDESCRIPTION }

\* the lines of a document that belong to an event itself: its BEGIN:VEVENT
\* and END:VEVENT markers and the lines with a recognized key between them
\* that are in no nested block
RECURSIVE OwnLines(_, _, _)
OwnLines(lines, inEvent, depth) ==
    IF lines = <<>> THEN <<>>
    ELSE LET line == Head(lines)
             rest == Tail(lines)
         IN  IF Skipped(line) THEN OwnLines(rest, inEvent, depth)
             ELSE IF IsBeginEvent(line) THEN <<line>> \o OwnLines(rest, TRUE, 0)
             ELSE IF IsEndEvent(line) THEN <<line>> \o OwnLines(rest, FALSE, 0)
             ELSE IF KeyOf(line) = KeyBEGIN THEN OwnLines(rest, inEvent, depth + 1)
             ELSE IF KeyOf(line) = KeyEND
                  THEN OwnLines(rest, inEvent, IF depth > 0 THEN depth - 1 ELSE 0)
             ELSE IF inEvent /\ depth = 0 /\ KeyOf(line) \in RecognizedKeys
                  THEN <<line>> \o OwnLines(rest, inEvent, depth)
             ELSE OwnLines(rest, inEvent, depth)

\* C12: lines outside every VEVENT block, lines of a block nested in an open
\* VEVENT and lines with an unrecognized key change no field of a returned
\* event: the events returned are those of the document without these lines.
C12_ForeignLinesIgnored ==
    ppc = "done" =>
        pEvents = ParseLines(NullEvent, <<>>,
                             OwnLines(SplitLines(Unfold(pData)), FALSE, 0))

\* the same for the documents that have no block nested in an event
ForeignLinesIgnoredUnnested ==
    (ppc = "done" /\ \A i \in 1..Len(pData) - 5 :
                        SubSeq(pData, i, i + 5) # SubSeq(LineBeginAlarm, 7, 12))
        => pEvents = ParseLines(NullEvent, <<>>,
                                OwnLines(SplitLines(Unfold(pData)), FALSE, 0))

(***************************************************************************)
(* App: the month targets, the image uploads and the messages handed to    *)
(* the analytics service.  The calendar sources are kept without their     *)
(* events here.                                                            *)
(***************************************************************************)
MaxUploads == 1        \* at most MaxUploads images are uploaded in a run

\* the image files the user uploads; a file is referred to by its position
Images ==
    << [size |-> 48213, data |-> "data:image/png;base64,AAAA"],
       [size |-> 1530277, data |-> "data:image/jpeg;base64,BBBB"] >>

\* the months whose image control the user operates
UploadMonths == {0, 11}

\* `https://picsum.photos/seed/calcraft-${i}-${config.year}/1200/800`
PicsumImage(i, year) == [seed |-> <<i, year>>, data |-> ""]

\* the base64 result of readAsDataURL
UploadedImage(image) == [seed |-> <<>>, data |-> Images[image].data]

\* Array.from({ length: 12 }, (_, i) => ({ month: i, year, image }))
InitialMonths(year) ==
    [k \in 1..12 |->
        [month |-> k - 1, year |-> year, image |-> PicsumImage(k - 1, year)]]

\* posthog.capture('calendar_imported', { calendar_name, event_count })
ImportedMessage(file) ==
    [NoMessage EXCEPT !.event = "calendar_imported",
                      !.calendar_name = file.name,
                      !.event_count = Len(parseICS(file.content))]

\* posthog.capture('calendar_toggled', { calendar_name, now_active })
ToggledMessage(name, active) ==
    [NoMessage EXCEPT !.event = "calendar_toggled",
                      !.calendar_name = name,
                      !.now_active = IF active THEN "true" ELSE "false"]

\* posthog.capture('calendar_deleted', { calendar_name })
DeletedMessage(name) ==
    [NoMessage EXCEPT !.event = "calendar_deleted", !.calendar_name = name]

\* posthog.capture('month_image_updated', { month, file_size })
ImageMessage(monthIndex, image) ==
    [NoMessage EXCEPT !.event = "month_image_updated",
                      !.month = monthIndex,
                      !.file_size = image.size]

\* posthog.capture('config_updated', { setting: 'year', value })
YearMessage(year) ==
    [NoMessage EXCEPT !.event = "config_updated", !.setting = "year",
                      !.value = year]

\* posthog.capture: the message leaves the browser unless capturing was
\* opted out of (posthog.init, loaded)
Capture(message, cause) ==
    /\ kSent' = IF kDev THEN kSent ELSE message
    /\ kCause' = IF kDev THEN kCause ELSE cause

SessionFrame ==
    UNCHANGED <<envVars, layoutVars, dateVars, expVars, parseVars, gridVars, appVars,
                geoVars, dayVars, kDev, spc>>

\* the state after the first render: no month targets yet, the effect on
\* config.year has yet to run
SessionInit ==
    /\ EnvInit
    /\ DateIdle
    /\ ExpIdle
    /\ ParseIdle
    /\ GridIdle
    /\ AppIdle
    /\ GeoIdle
    /\ LayoutIdle
    /\ DayIdle
    /\ kDev \in BOOLEAN
    /\ mYear \in Years
    /\ mMonths = <<>>
    /\ mEffect = TRUE
    /\ mReads = <<>>
    /\ mUploads = 0
    /\ kCalendars = <<>>
    /\ kReads = <<>>
    /\ kNextId = 0
    /\ kSent = NoMessage
    /\ kCause = NoCause
    /\ spc = "run"

\* useEffect(..., [config.year]): the month targets are built anew
YearEffect ==
    /\ spc = "run"
    /\ mEffect
    /\ mMonths' = InitialMonths(mYear)
    /\ mEffect' = FALSE
    /\ UNCHANGED <<mYear, mReads, mUploads, kCalendars, kReads, kNextId, kSent, kCause>>
    /\ SessionFrame

\* updateConfig('year', y) from the year input
ChangeYear(y) ==
    /\ spc = "run"
    /\ ~mEffect
    /\ y # mYear
    /\ mYear' = y
    /\ mEffect' = TRUE
    /\ Capture(YearMessage(y), [NoCause EXCEPT !.event = "config_updated", !.year = y])
    /\ UNCHANGED <<mMonths, mReads, mUploads, kCalendars, kReads, kNextId>>
    /\ SessionFrame

\* handleImageUpload(monthIndex, e): the read starts; its handler sees this
\* render's monthConfigs
handleImageUpload(monthIndex, image) ==
    /\ spc = "run"
    /\ ~mEffect
    /\ mUploads < MaxUploads
    /\ monthIndex + 1 \in 1..Len(mMonths)
    /\ mReads' = Append(mReads, [monthIndex |-> monthIndex, image |-> image,
                                 monthConfigs |-> mMonths])
    /\ mUploads' = mUploads + 1
    /\ UNCHANGED <<mYear, mMonths, mEffect, kCalendars, kReads, kNextId, kSent, kCause>>
    /\ SessionFrame

\* reader.onload of the i-th image read in flight
ImageOnLoad(i) ==
    /\ spc = "run"
    /\ ~mEffect
    /\ i \in 1..Len(mReads)
    /\ LET rd == mReads[i]
       IN  /\ mMonths' = [rd.monthConfigs EXCEPT
                             ![rd.monthIndex + 1].image = UploadedImage(rd.image)]
           /\ Capture(ImageMessage(rd.monthIndex, Images[rd.image]),
                      [NoCause EXCEPT !.event = "month_image_updated",
                                      !.month = rd.monthIndex, !.image = rd.image])
    /\ mReads' = SubSeq(mReads, 1, i - 1) \o SubSeq(mReads, i + 1, Len(mReads))
    /\ UNCHANGED <<mYear, mEffect, mUploads, kCalendars, kReads, kNextId>>
    /\ SessionFrame

\* handleFileUpload: the read of a calendar file starts
UploadCalendar(file) ==
    /\ spc = "run"
    /\ ~mEffect
    /\ kNextId + Len(kReads) < MaxImports
    /\ kReads' = Append(kReads, file)
    /\ UNCHANGED <<mYear, mMonths, mEffect, mReads, mUploads, kCalendars, kNextId, kSent, kCause>>
    /\ SessionFrame

\* reader.onload of the i-th calendar read in flight: the source is added
\* and calendar_imported is captured
CalendarOnLoad(i) ==
    /\ spc = "run"
    /\ ~mEffect
    /\ i \in 1..Len(kReads)
    /\ LET file == kReads[i]
       IN  /\ kCalendars' =
                Append(kCalendars,
                       [id |-> kNextId + 1,
                        name |-> RemoveFirst(Files[file].name, DotIcs),
                        active |-> TRUE, file |-> file])
           /\ Capture(ImportedMessage(Files[file]),
                      [NoCause EXCEPT !.event = "calendar_imported", !.file = file])
    /\ kNextId' = kNextId + 1
    /\ kReads' = SubSeq(kReads, 1, i - 1) \o SubSeq(kReads, i + 1, Len(kReads))
    /\ UNCHANGED <<mYear, mMonths, mEffect, mReads, mUploads>>
    /\ SessionFrame

\* toggleCalendar(id): the flag is flipped and calendar_toggled is captured
\* with the name and the new flag
ToggleAndCapture(id) ==
    /\ spc = "run"
    /\ ~mEffect
    /\ \E k \in 1..Len(kCalendars) :
          /\ kCalendars[k].id = id
          /\ kCalendars' = [kCalendars EXCEPT ![k].active = ~kCalendars[k].active]
          /\ Capture(ToggledMessage(kCalendars[k].name, ~kCalendars[k].active),
                     [NoCause EXCEPT !.event = "calendar_toggled",
                                     !.file = kCalendars[k].file,
                                     !.active = ~kCalendars[k].active])
    /\ UNCHANGED <<mYear, mMonths, mEffect, mReads, mUploads, kReads, kNextId>>
    /\ SessionFrame

\* deleteCalendar(id): the source is removed and calendar_deleted is
\* captured with its name
DeleteAndCapture(id) ==
    /\ spc = "run"
    /\ ~mEffect
    /\ \E k \in 1..Len(kCalendars) :
          /\ kCalendars[k].id = id
          /\ Capture(DeletedMessage(kCalendars[k].name),
                     [NoCause EXCEPT !.event = "calendar_deleted",
                                     !.file = kCalendars[k].file])
    /\ LET Keeps(cal) == cal.id # id
       IN  kCalendars' = SelectSeq(kCalendars, Keeps)
    /\ UNCHANGED <<mYear, mMonths, mEffect, mReads, mUploads, kReads, kNextId>>
    /\ SessionFrame

TrackNext ==
    \/ YearEffect
    \/ \E y \in Years : ChangeYear(y)
    \/ \E monthIndex \in UploadMonths, image \in 1..Len(Images) :
          handleImageUpload(monthIndex, image)
    \/ \E i \in 1..MaxUploads : ImageOnLoad(i)
    \/ \E file \in 1..Len(Files) : UploadCalendar(file)
    \/ \E i \in 1..MaxImports : CalendarOnLoad(i)
    \/ \E id \in 1..MaxImports : ToggleAndCapture(id)
    \/ \E id \in 1..MaxImports : DeleteAndCapture(id)

TrackSpec == SessionInit /\ [][TrackNext]_vars

\* the message the same user action sends in the run where the calendar
\* file f and the image g were chosen instead
MessageInRun(cause, f, g) ==
    IF cause.event = "calendar_imported" THEN ImportedMessage(Files[f])
    ELSE IF cause.event = "calendar_toggled"
         THEN ToggledMessage(RemoveFirst(Files[f].name, DotIcs), cause.active)
    ELSE IF cause.event = "calendar_deleted"
         THEN DeletedMessage(RemoveFirst(Files[f].name, DotIcs))
    ELSE IF cause.event = "month_image_updated"
         THEN ImageMessage(cause.month, Images[g])
    ELSE IF cause.event = "config_updated" THEN YearMessage(cause.year)
    ELSE NoMessage

\* C13: no message sent to the analytics service depends on an imported
\* calendar file or an uploaded image: the run that differs only in the file
\* or the image sends the same message.
C13_MessagesIndependentOfUserData ==
    \A f \in 1..Len(Files), g \in 1..Len(Images) :
        kSent = MessageInRun(kCause, f, g)

\* the same for the messages of config_updated alone
YearMessagesIndependentOfUserData ==
    kCause.event \in {"", "config_updated"} =>
        \A f \in 1..Len(Files), g \in 1..Len(Images) :
            kSent = MessageInRun(kCause, f, g)

(***************************************************************************)
(* Specification of the month targets: mount, year changes and image       *)
(* uploads.                                                                *)
(***************************************************************************)
MonthsNext ==
    \/ YearEffect
    \/ \E y \in Years : ChangeYear(y)
    \/ \E monthIndex \in UploadMonths, image \in 1..Len(Images) :
          handleImageUpload(monthIndex, image)
    \/ \E i \in 1..MaxUploads : ImageOnLoad(i)

MonthsSpec == SessionInit /\ [][MonthsNext]_vars

\* the list has 12 entries with month indices 0..11 in order, each of year y
TwelveMonthsOf(months, y) ==
    /\ Len(months) = 12
    /\ \A k \in 1..12 : months[k].month = k - 1 /\ months[k].year = y

\* an uploaded image is set for some month
HasCustomImage(months) == \E k \in 1..Len(months) : months[k].image.data # ""

\* C15: once the effect on the configured year has run, after the mount and
\* after every change of the year, the month targets are 12 entries with
\* month indices 0..11 in order, each with the configured year.
C15_MonthTargetsOfConfiguredYear ==
    (spc = "run" /\ ~mEffect) => TwelveMonthsOf(mMonths, mYear)

\* the step of the effect itself leaves 12 entries of the configured year,
\* none with an uploaded image
MonthTargetsRebuiltByEffect ==
    [][ (mEffect /\ ~mEffect') =>
          (TwelveMonthsOf(mMonths', mYear') /\ ~HasCustomImage(mMonths')) ]_vars

\* C28: in every interleaving of year changes and image uploads, once no
\* file read is pending (and the effect of the last year change has run)
\* every month target has the configured year: an upload started before a
\* year change and completed after it brings no entry of the previous year
\* back.
C28_NoStaleMonthTargets ==
    (spc = "run" /\ ~mEffect /\ mReads = <<>>) =>
        \A k \in 1..Len(mMonths) : mMonths[k].year = mYear

\* an image load whose upload started under the configured year leaves
\* month targets of the configured year
TimelyLoadKeepsYear ==
    [][ \A i \in 1..MaxUploads :
          (ImageOnLoad(i)
             /\ \A k \in 1..Len(mReads[i].monthConfigs) :
                   mReads[i].monthConfigs[k].year = mYear)
            => \A k \in 1..Len(mMonths') : mMonths'[k].year = mYear' ]_vars

(***************************************************************************)
(* The page geometry.  Lengths are in micrometres; the custom width and    *)
(* height of the config are in hundredths of the config's unit, so that    *)
(* x * 25.4 mm is (100 x) * 254 micrometres.                               *)
(***************************************************************************)
SizeA4     == <<"A", "4">>
SizeA5     == <<"A", "5">>
SizeCustom == <<"c", "u", "s", "t", "o", "m">>

PageSizes == { SizeA4, SizeA5, SizeCustom }

\* the values the user types into the custom width and height inputs:
\* 8.5, 11, 210 and 297
CustomValues == { 850, 1100, 21000, 29700 }

\* pageSize 'A4', customWidth 210, customHeight 297, dimensionUnit 'mm'
DefaultPageConfig ==
    [pageSize |-> SizeA4, customWidth |-> 21000, customHeight |-> 29700,
     dimensionUnit |-> "mm"]

\* the height does not take the unit into account
currentHeight_NoInchFactor(config) ==
    IF config.pageSize = SizeA4 THEN 297000
    ELSE IF config.pageSize = SizeA5 THEN 210000
    ELSE config.customHeight * 10

\* MonthPage: currentWidth
currentWidth(config) ==
    IF config.pageSize = SizeA4 THEN 210000
    ELSE IF config.pageSize = SizeA5 THEN 148000
    ELSE IF config.dimensionUnit = "in" THEN config.customWidth * 254
    ELSE config.customWidth * 10

\* MonthPage: currentHeight
currentHeight(config) ==
    IF config.pageSize = SizeA4 THEN 297000
    ELSE IF config.pageSize = SizeA5 THEN 210000
    ELSE IF config.dimensionUnit = "in" THEN config.customHeight * 254
    ELSE config.customHeight * 10

\* MonthPage: pageScale = currentWidth / 210, as <<numerator, denominator>>
pageScale(config) == <<currentWidth(config), 210000>>

\* App, updateScale: currentWidthMM
currentWidthMM(config) ==
    IF config.pageSize = SizeA4 THEN 210000
    ELSE IF config.pageSize = SizeA5 THEN 148000
    ELSE IF config.dimensionUnit = "in" THEN config.customWidth * 254
    ELSE config.customWidth * 10

\* App: the height of the page container, before the factor 3.78 * previewScale
ContainerHeight(config) ==
    IF config.pageSize = SizeA4 THEN 297000
    ELSE IF config.pageSize = SizeA5 THEN 210000
    ELSE IF config.dimensionUnit = "in" THEN config.customHeight * 254
    ELSE config.customHeight * 10

LowerChar(c) ==
    IF \E i \in 1..Len(UpperChars) : UpperChars[i] = c
    THEN LowerChars[CHOOSE i \in 1..Len(UpperChars) : UpperChars[i] = c]
    ELSE c

toLowerCase(s) == [i \in 1..Len(s) |-> LowerChar(s[i])]

\* handleExportPDF: format, a pair of lengths or the name of a paper format
ExportFormat(config) ==
    IF config.pageSize = SizeCustom
    THEN [name |-> <<>>,
          size |-> << IF config.dimensionUnit = "in" THEN config.customWidth * 254
                      ELSE config.customWidth * 10,
                      IF config.dimensionUnit = "in" THEN config.customHeight * 254
                      ELSE config.customHeight * 10 >>]
    ELSE [name |-> toLowerCase(config.pageSize), size |-> <<0, 0>>]

\* Math.round(v / 25.4 * 100) / 100 for v in hundredths of a millimetre
ToInches(v) == (v * 20 + 254) \div 508

\* Math.round(v * 25.4 * 100) / 100 for v in hundredths of an inch
ToMillimetres(v) == (v * 508 + 10) \div 20

\* the render that follows a change of the config
RenderPage(config) ==
    /\ cPage' = [currentWidth |-> currentWidth(config),
                 currentHeight |-> currentHeight(config),
                 pageScale |-> pageScale(config)]
    /\ cContainer' = ContainerHeight(config)

GeoFrame ==
    UNCHANGED <<envVars, layoutVars, dateVars, expVars, parseVars, gridVars, appVars,
                sessionVars, dayVars, cpc>>

\* the state after the first render with the default config: the effect of
\* updateScale has yet to run
GeoInit ==
    /\ EnvInit
    /\ DateIdle
    /\ ExpIdle
    /\ ParseIdle
    /\ GridIdle
    /\ AppIdle
    /\ SessionIdle
    /\ DayIdle
    /\ LayoutIdle
    /\ cConfig = DefaultPageConfig
    /\ cPage = [currentWidth |-> currentWidth(DefaultPageConfig),
                currentHeight |-> currentHeight(DefaultPageConfig),
                pageScale |-> pageScale(DefaultPageConfig)]
    /\ cContainer = ContainerHeight(DefaultPageConfig)
    /\ cPreview = 0
    /\ cEffect = TRUE
    /\ cPdf = NoPdf
    /\ cpc = "run"

\* useEffect(..., [config.pageSize, config.customWidth, config.dimensionUnit])
UpdateScale ==
    /\ cpc = "run"
    /\ cEffect
    /\ cPreview' = currentWidthMM(cConfig)
    /\ cEffect' = FALSE
    /\ UNCHANGED <<cConfig, cPage, cContainer, cPdf>>
    /\ GeoFrame

\* updateConfig('pageSize', size) from the page size select
SetPageSize(size) ==
    /\ cpc = "run"
    /\ ~cEffect
    /\ size # cConfig.pageSize
    /\ cConfig' = [cConfig EXCEPT !.pageSize = size]
    /\ RenderPage(cConfig')
    /\ cEffect' = TRUE
    /\ cPdf' = NoPdf
    /\ UNCHANGED cPreview
    /\ GeoFrame

\* the unit buttons: the custom width and height are converted and rounded
\* to two decimals
SetUnit(unit) ==
    /\ cpc = "run"
    /\ ~cEffect
    /\ cConfig.pageSize = SizeCustom
    /\ unit # cConfig.dimensionUnit
    /\ cConfig' =
         [cConfig EXCEPT
            !.dimensionUnit = unit,
            !.customWidth = IF unit = "in" THEN ToInches(cConfig.customWidth)
                            ELSE ToMillimetres(cConfig.customWidth),
            !.customHeight = IF unit = "in" THEN ToInches(cConfig.customHeight)
                             ELSE ToMillimetres(cConfig.customHeight)]
    /\ RenderPage(cConfig')
    /\ cEffect' = TRUE
    /\ cPdf' = NoPdf
    /\ UNCHANGED cPreview
    /\ GeoFrame

\* updateConfig('customWidth', v) from the width input
SetCustomWidth(v) ==
    /\ cpc = "run"
    /\ ~cEffect
    /\ cConfig.pageSize = SizeCustom
    /\ v # cConfig.customWidth
    /\ cConfig' = [cConfig EXCEPT !.customWidth = v]
    /\ RenderPage(cConfig')
    /\ cEffect' = TRUE
    /\ cPdf' = NoPdf
    /\ UNCHANGED cPreview
    /\ GeoFrame

\* updateConfig('customHeight', v) from the height input; the effect of
\* updateScale does not depend on the height
SetCustomHeight(v) ==
    /\ cpc = "run"
    /\ ~cEffect
    /\ cConfig.pageSize = SizeCustom
    /\ v # cConfig.customHeight
    /\ cConfig' = [cConfig EXCEPT !.customHeight = v]
    /\ RenderPage(cConfig')
    /\ cPdf' = NoPdf
    /\ UNCHANGED <<cPreview, cEffect>>
    /\ GeoFrame

\* handleExportPDF: the format handed to the PDF library
handleExportPDF ==
    /\ cpc = "run"
    /\ ~cEffect
    /\ cPdf' = [name |-> ExportFormat(cConfig).name,
                size |-> ExportFormat(cConfig).size,
                config |-> <<cConfig>>]
    /\ cPdf' # cPdf
    /\ UNCHANGED <<cConfig, cPage, cContainer, cPreview, cEffect>>
    /\ GeoFrame

GeoNext ==
    \/ UpdateScale
    \/ \E size \in PageSizes : SetPageSize(size)
    \/ \E unit \in {"mm", "in"} : SetUnit(unit)
    \/ \E v \in CustomValues : SetCustomWidth(v)
    \/ \E v \in CustomValues : SetCustomHeight(v)
    \/ handleExportPDF

GeoSpec == GeoInit /\ [][GeoNext]_vars

\* the paper formats the PDF library knows by name: a4 is 210 x 297 mm and
\* a5 is 148 x 210 mm
FormatSize(format) ==
    IF format.name = <<"a", "4">> THEN <<210000, 297000>>
    ELSE IF format.name = <<"a", "5">> THEN <<148000, 210000>>
    ELSE format.size

\* the geometry of the claim: A4 is 210 x 297 mm, A5 is 148 x 210 mm, custom
\* is the configured width and height, times 25.4 when the unit is inches
ResolvedSize(config) ==
    CASE config.pageSize = SizeA4 -> <<210000, 297000>>
      [] config.pageSize = SizeA5 -> <<148000, 210000>>
      [] config.pageSize = SizeCustom /\ config.dimensionUnit = "in" ->
           <<config.customWidth * 254, config.customHeight * 254>>
      [] config.pageSize = SizeCustom /\ config.dimensionUnit = "mm" ->
           <<config.customWidth * 10, config.customHeight * 10>>

\* C17: the month page resolves A4 to 210 x 297 mm, A5 to 148 x 210 mm and
\* custom to the configured width and height, times 25.4 for inches; its
\* scale is the resolved width / 210, which is 1 for A4; the page container,
\* the preview-scale computation and the format of the PDF export resolve the
\* same width and height for the same config.
C17_PageGeometry ==
    cpc = "run" =>
        /\ <<cPage.currentWidth, cPage.currentHeight>> = ResolvedSize(cConfig)
        /\ cPage.pageScale[1] = ResolvedSize(cConfig)[1]
        /\ cPage.pageScale[2] = 210000
        /\ (cConfig.pageSize = SizeA4 => cPage.pageScale[1] = cPage.pageScale[2])
        /\ cContainer = ResolvedSize(cConfig)[2]
        /\ (~cEffect => cPreview = ResolvedSize(cConfig)[1])
        /\ (cPdf # NoPdf => FormatSize(cPdf) = ResolvedSize(cPdf.config[1]))

\* a custom page of 8.5 x 11 inches was rendered and exported: 215.9 x 279.4 mm
C17_Witness ==
    /\ cpc = "run"
    /\ ~cEffect
    /\ cConfig.pageSize = SizeCustom
    /\ cConfig.dimensionUnit = "in"
    /\ cConfig.customWidth = 850
    /\ cConfig.customHeight = 1100
    /\ cPage.currentWidth = 215900
    /\ cPage.currentHeight = 279400
    /\ cPreview = 215900
    /\ cPdf.config = <<cConfig>>
    /\ cPdf.size = <<215900, 279400>>

(***************************************************************************)
(* MonthPage: the events of the month and of each day cell.                *)
(***************************************************************************)
MaxPageEvents == 2     \* the events prop holds at most MaxPageEvents events

\* the local date is compared only
isSameDay_LocalOnly(d1, d2Day, d2Month, d2Year) ==
    getFullYear(d1) = d2Year /\ getMonth(d1) = d2Month /\ getDate(d1) = d2Day

isSameDay(d1, d2Day, d2Month, d2Year) ==
    LET localMatch == /\ getFullYear(d1) = d2Year
                      /\ getMonth(d1) = d2Month
                      /\ getDate(d1) = d2Day
        utcMatch   == /\ getUTCFullYear(d1) = d2Year
                      /\ getUTCMonth(d1) = d2Month
                      /\ getUTCDate(d1) = d2Day
    IN  localMatch \/ utcMatch

\* events.filter(e => ...): the events of the month of the page
monthEvents(events, month, year) ==
    LET InMonth(e) ==
            \/ (getFullYear(e.startDate) = year /\ getMonth(e.startDate) = month)
            \/ (getUTCFullYear(e.startDate) = year
                /\ getUTCMonth(e.startDate) = month)
    IN  SelectSeq(events, InMonth)

\* cell.day ? monthEvents.filter(e => isSameDay(...)) : []
dayEvents(cell, evs, month, year) ==
    IF cell.day # NullDay
    THEN LET OnDay(e) == isSameDay(e.startDate, cell.day, month, year)
         IN  SelectSeq(evs, OnDay)
    ELSE <<>>

\* every event of the cell is displayed
shownTitles_All(showEvents, evs) ==
    IF showEvents THEN [k \in 1..Len(evs) |-> evs[k].title] ELSE <<>>

\* config.showEvents && dayEvents.slice(0, 2).map(event => ... event.title)
shownTitles(showEvents, evs) ==
    IF showEvents
    THEN LET first == SubSeq(evs, 1, IF Len(evs) < 2 THEN Len(evs) ELSE 2)
         IN  [k \in 1..Len(first) |-> first[k].title]
    ELSE <<>>

\* dayEvents.length > 2 && <div>+{dayEvents.length - 2}</div>: the counters
\* the cell displays, none or one
overflowCounters(evs) ==
    IF Len(evs) > 2 THEN <<Len(evs) - 2>> ELSE <<>>

\* the instants the events of a page start at, around the month of the
\* page: the evening before its first day, early on its first day, the
\* evening of its 15th, the evening of its last day and early on the day after
PageInstants(year, month) ==
    LET first == MakeDay(year, month, 1)
        last  == first + CalendarDays(year, month + 1) - 1
    IN  { [day |-> first - 1, sod |-> 84600], [day |-> first, sod |-> 7200],
          [day |-> first + 14, sod |-> 84600],
          [day |-> last, sod |-> 84600], [day |-> last + 1, sod |-> 7200] }

PageEventLists(year, month) ==
    UNION { [1..n -> { Event(TitleA, t, NoDate, Undefined, Undefined) :
                         t \in PageInstants(year, month) }]
            : n \in 0..MaxPageEvents }

\* the grid rows policies of the pages
PageGridRows == {0, 4}

\* the months of the pages: January, February and December
PageMonths == {0, 1, 11}

DayInit ==
    /\ EnvInit
    /\ DateIdle
    /\ ExpIdle
    /\ ParseIdle
    /\ AppIdle
    /\ SessionIdle
    /\ GeoIdle
    /\ LayoutIdle
    /\ gYear \in Years
    /\ gMonth \in PageMonths
    /\ gRows \in PageGridRows
    /\ gShow \in BOOLEAN
    /\ gColumns = 0
    /\ gCells = <<>>
    /\ gpc = "render"
    /\ yEvents \in PageEventLists(gYear, gMonth)
    /\ yMonthEvents = <<>>
    /\ yDayEvents = <<>>
    /\ yShowEvents = TRUE
    /\ yShown = <<>>
    /\ yOverflow = <<>>
    /\ ypc = "render"

\* the render of the page with the grid shown: the cells, and for each cell
\* that is neither a header nor empty its dayEvents
RenderDays ==
    /\ gpc = "render"
    /\ gShow
    /\ LET daysInMonth == getDaysInMonth(gMonth, gYear)
           firstDay    == getFirstDayOfMonth(gMonth, gYear)
       IN  /\ gColumns' = GridColumns(daysInMonth, gRows)
           /\ gCells' = GridCells(daysInMonth, firstDay, gRows, gYear, gMonth)
           /\ yMonthEvents' = monthEvents(yEvents, gMonth, gYear)
           /\ yDayEvents' =
                [i \in 1..Len(gCells') |->
                    IF isHeader(gCells'[i]) \/ isEmpty(gCells'[i]) THEN <<>>
                    ELSE dayEvents(gCells'[i], yMonthEvents', gMonth, gYear)]
           /\ yShown' =
                [i \in 1..Len(gCells') |->
                    IF isHeader(gCells'[i]) \/ isEmpty(gCells'[i]) THEN <<>>
                    ELSE shownTitles(yShowEvents, yDayEvents'[i])]
           /\ yOverflow' =
                [i \in 1..Len(gCells') |->
                    IF isHeader(gCells'[i]) \/ isEmpty(gCells'[i]) THEN <<>>
                    ELSE overflowCounters(yDayEvents'[i])]
    /\ gpc' = "done"
    /\ ypc' = "done"
    /\ UNCHANGED <<envVars, layoutVars, sessionVars, geoVars, dateVars, expVars, parseVars, appVars,
                   gYear, gMonth, gRows, gShow, yEvents, yShowEvents>>

DayNext == RenderDays \/ RenderNoGrid

DaySpec == DayInit /\ [][DayNext]_vars

\* the event is among the events of the i-th cell
AssignedTo(e, i) == \E j \in 1..Len(yDayEvents[i]) : yDayEvents[i][j] = e

\* the i-th cell is the cell of day D
DayCell(i, D) == gCells[i].day = D /\ ~isHeader(gCells[i]) /\ ~isEmpty(gCells[i])

\* the local and the UTC calendar date of the start of the event
LocalDateOf(e) ==
    <<getFullYear(e.startDate), getMonth(e.startDate), getDate(e.startDate)>>

UTCDateOf(e) ==
    <<getUTCFullYear(e.startDate), getUTCMonth(e.startDate),
      getUTCDate(e.startDate)>>

\* the page was rendered with its grid
PageRendered == gpc = "done" /\ ypc = "done" /\ gShow

\* C20: on the page of month M of year Y an event is assigned to the cell of
\* day D exactly if its local date or its UTC date is (Y, M, D); every day of
\* the month has one cell; hence every event of the month's list is assigned
\* to a cell of the page, and an event whose local and UTC dates differ is
\* assigned to the cell of each of the two dates on the page of that date,
\* two distinct cells when both dates are of this page.
C20_AssignedByEitherDate ==
    PageRendered =>
        /\ \A D \in 1..CalendarDays(gYear, gMonth + 1) :
              Cardinality({i \in 1..Len(gCells) : DayCell(i, D)}) = 1
        /\ \A k \in 1..Len(yEvents) :
              \A l \in {LocalDateOf(yEvents[k])}, u \in {UTCDateOf(yEvents[k])} :
                 /\ \A i \in 1..Len(gCells) :
                       DayCell(i, gCells[i].day) =>
                          (AssignedTo(yEvents[k], i)
                              <=> \/ l = <<gYear, gMonth, gCells[i].day>>
                                  \/ u = <<gYear, gMonth, gCells[i].day>>)
                 /\ l # u =>
                       /\ (l[1] = gYear /\ l[2] = gMonth) =>
                             \E i \in 1..Len(gCells) :
                                DayCell(i, l[3]) /\ AssignedTo(yEvents[k], i)
                       /\ (u[1] = gYear /\ u[2] = gMonth) =>
                             \E i \in 1..Len(gCells) :
                                DayCell(i, u[3]) /\ AssignedTo(yEvents[k], i)
                       /\ (l[1] = gYear /\ l[2] = gMonth
                              /\ u[1] = gYear /\ u[2] = gMonth)
                             => \E i, j \in 1..Len(gCells) :
                                   /\ i # j
                                   /\ AssignedTo(yEvents[k], i)
                                   /\ AssignedTo(yEvents[k], j)
        /\ \A k \in 1..Len(yMonthEvents) :
              \E i \in 1..Len(gCells) :
                 gCells[i].day >= 1 /\ AssignedTo(yMonthEvents[k], i)

\* an event of the evening of the 15th (UTC), which is the 16th in the local
\* zone, is in the cells of the 15th and of the 16th; an event whose UTC date
\* is of the next month is in the cell of the last day
C20_Witness ==
    /\ PageRendered
    /\ Len(yEvents) = 2
    /\ UTCDateOf(yEvents[1]) = <<gYear, gMonth, 15>>
    /\ LocalDateOf(yEvents[1]) = <<gYear, gMonth, 16>>
    /\ \E i, j \in 1..Len(gCells) :
          /\ DayCell(i, 15) /\ DayCell(j, 16)
          /\ AssignedTo(yEvents[1], i) /\ AssignedTo(yEvents[1], j)
    /\ getUTCMonth(yEvents[2].startDate) # gMonth
    /\ getMonth(yEvents[2].startDate) = gMonth
    /\ Len(yMonthEvents) = 2

(***************************************************************************)
(* The events a day cell displays.  The pages are those of January of the  *)
(* last year of the window; the events start on the 15th, at midday or in  *)
(* the evening (UTC), so that several share a cell; the showEvents setting *)
(* is on or off.                                                           *)
(***************************************************************************)
MaxCellEvents == 3     \* the events prop holds at most MaxCellEvents events

CellInstants ==
    { [day |-> MakeDay(MaxYear, 0, 15), sod |-> 36000],
      [day |-> MakeDay(MaxYear, 0, 15), sod |-> 84600] }

CellEventLists ==
    UNION { [1..n -> { Event(title, t, NoDate, Undefined, Undefined) :
                         title \in {TitleA, TitleB}, t \in CellInstants }]
            : n \in 0..MaxCellEvents }

ShowInit ==
    /\ EnvInit
    /\ DateIdle
    /\ ExpIdle
    /\ ParseIdle
    /\ AppIdle
    /\ SessionIdle
    /\ GeoIdle
    /\ LayoutIdle
    /\ gYear = MaxYear
    /\ gMonth = 0
    /\ gRows \in PageGridRows
    /\ gShow \in BOOLEAN
    /\ gColumns = 0
    /\ gCells = <<>>
    /\ gpc = "render"
    /\ yEvents \in CellEventLists
    /\ yMonthEvents = <<>>
    /\ yDayEvents = <<>>
    /\ yShowEvents \in BOOLEAN
    /\ yShown = <<>>
    /\ yOverflow = <<>>
    /\ ypc = "render"

ShowSpec == ShowInit /\ [][DayNext]_vars

\* the i-th cell is a day cell
IsDayCell(i) == ~isHeader(gCells[i]) /\ ~isEmpty(gCells[i])

\* the events of the list given to the page, each with its local and its
\* UTC calendar date
DatedEvents ==
    [k \in 1..Len(yEvents) |->
        [event |-> yEvents[k], local |-> LocalDateOf(yEvents[k]),
         utc |-> UTCDateOf(yEvents[k])]]

\* those of the dated events that match the day of the i-th cell, in the
\* order of the list
MatchingInOrder(dated, i) ==
    LET OnDayOf(x) ==
            \/ x.local = <<gYear, gMonth, gCells[i].day>>
            \/ x.utc = <<gYear, gMonth, gCells[i].day>>
        kept == SelectSeq(dated, OnDayOf)
    IN  [k \in 1..Len(kept) |-> kept[k].event]

\* the smaller of two numbers
Min(a, b) == IF a < b THEN a ELSE b

\* C21: the events of every day cell are the matching events of the list
\* given to the page, in the order of that list; when events are shown the
\* cell displays the titles of exactly the first min(n, 2) of its n events;
\* it displays the counter n - 2 exactly if n > 2; its list has all n events.
C21_SourceOrderAndCap ==
    PageRendered =>
        \A dated \in {DatedEvents} : \A i \in 1..Len(gCells) :
            IsDayCell(i) =>
                \A m \in {MatchingInOrder(dated, i)} :
                    /\ yDayEvents[i] = m
                    /\ yShowEvents =>
                          /\ Len(yShown[i]) = Min(Len(m), 2)
                          /\ \A k \in 1..Len(yShown[i]) : yShown[i][k] = m[k].title
                    /\ (yOverflow[i] # <<>>) <=> (Len(m) > 2)
                    /\ Len(m) > 2 => yOverflow[i] = <<Len(m) - 2>>

\* three events on the 15th, the titles B, A, A in this order: the cell
\* displays B and A and the counter 1
C21_Witness ==
    /\ PageRendered
    /\ yShowEvents
    /\ \E i \in 1..Len(gCells) :
          /\ IsDayCell(i)
          /\ gCells[i].day = 15
          /\ Len(yDayEvents[i]) = 3
          /\ yDayEvents[i][1].title = TitleB
          /\ yShown[i] = <<TitleB, TitleA>>
          /\ yOverflow[i] = <<1>>

\* C29: with showEvents off no day cell displays event-derived content,
\* neither an event title nor a "+N" counter.
C29_NothingShownWhenOff ==
    (PageRendered /\ ~yShowEvents) =>
        \A i \in 1..Len(gCells) : yShown[i] = <<>> /\ yOverflow[i] = <<>>

\* with showEvents off no day cell displays an event title
NoTitlesWhenOff ==
    (PageRendered /\ ~yShowEvents) =>
        \A i \in 1..Len(gCells) : yShown[i] = <<>>

(***************************************************************************)
(* Folded documents: an event block of which one line may be folded at one *)
(* position, with up to MaxExtraLines blank, whitespace-only or colon-less *)
(* physical lines put in at one place.                                     *)
(***************************************************************************)
MaxExtraLines == 1

LineSpaces    == <<" ", " ">>
LineContNoColon == <<" ", "x">>

ExtraVocabulary == { LineBlank, LineSpaces, LineNoColon, LineContNoColon }

ExtraLines == UNION { [1..n -> ExtraVocabulary] : n \in 0..MaxExtraLines }

\* the line breaks of a fold: what ends the first part (nothing, or the
\* carriage return of CR LF) and the whitespace that starts the second
FoldBreaks == { <<<<>>, " ">>, <<<<"\r">>, "\t">> }

\* the two physical lines of the line folded after its k-th character
FoldAt(line, k, brk) ==
    << SubSeq(line, 1, k) \o brk[1],
       <<brk[2]>> \o SubSeq(line, k + 1, Len(line)) >>

\* the physical lines of the event block with its i-th line folded
FoldedBlocks ==
    LET block == <<LineBegin, LineSummaryA, LineStart, LineEnd>>
    IN  { block }
          \cup { SubSeq(block, 1, i - 1) \o FoldAt(block[i], k, b)
                    \o SubSeq(block, i + 1, Len(block)) :
                 i \in {1}, k \in 1..(Len(LineBegin) - 1), b \in FoldBreaks }
          \cup { SubSeq(block, 1, i - 1) \o FoldAt(block[i], k, b)
                    \o SubSeq(block, i + 1, Len(block)) :
                 i \in {2}, k \in 1..(Len(LineSummaryA) - 1), b \in FoldBreaks }

FoldDocuments ==
    { JoinLines(SubSeq(ls, 1, at) \o ex \o SubSeq(ls, at + 1, Len(ls))) :
        <<ls, at>> \in { <<l, a>> \in FoldedBlocks \X (0..5) : a <= Len(l) },
        ex \in ExtraLines }

FoldInit ==
    /\ tz = 0
    /\ now \in Nows
    /\ DateIdle
    /\ ExpIdle
    /\ GridIdle
    /\ AppIdle
    /\ SessionIdle
    /\ GeoIdle
    /\ LayoutIdle
    /\ DayIdle
    /\ pData \in FoldDocuments
    /\ pLines = <<>>
    /\ pCur = NullEvent
    /\ pEvents = <<>>
    /\ ppc = "call"

FoldSpec == FoldInit /\ [][ParseNext]_vars

\* the line is empty or whitespace-only, or has no colon
BlankOrColonless(line) ==
    \/ \A i \in 1..Len(line) : IsSpace(line[i])
    \/ \A i \in 1..Len(line) : line[i] # ":"

\* the line begins with a space or a tab
IsContinuation(line) == line # <<>> /\ line[1] \in {" ", "\t"}

\* the lines without those of the given positions
RECURSIVE Without(_, _, _)
Without(lines, drop, i) ==
    IF i > Len(lines) THEN <<>>
    ELSE (IF i \in drop THEN <<>> ELSE <<lines[i]>>) \o Without(lines, drop, i + 1)

\* the physical lines of the document
PhysicalLines == SplitLines(pData)

\* the positions of all blank or colon-less physical lines
SkippablePositions ==
    { i \in 1..Len(PhysicalLines) : BlankOrColonless(PhysicalLines[i]) }

\* those that are no continuation lines and are followed by none
StandalonePositions ==
    { i \in SkippablePositions :
        /\ ~IsContinuation(PhysicalLines[i])
        /\ i < Len(PhysicalLines) => ~IsContinuation(PhysicalLines[i + 1]) }

\* a blank or colon-less line is about to be read
AtSkippableLine ==
    ppc = "loop" /\ pLines # <<>> /\ BlankOrColonless(Head(pLines))

\* reading a blank or colon-less line changes neither the accumulator nor
\* the output list, and the loop goes on with the following line
SkippableLineKeepsState ==
    [][ AtSkippableLine =>
          /\ pCur' = pCur
          /\ pEvents' = pEvents
          /\ pLines' = Tail(pLines)
          /\ ppc' = "loop" ]_vars

\* C24 (as claimed): a blank line and a line without a colon leave the
\* accumulator and the output list as they are and parsing goes on with the
\* following line; removing such lines from a document does not change what
\* parseICS returns.
C24_SkippedLinesRemovable ==
    /\ SkippableLineKeepsState
    /\ [](ppc = "done" =>
            pEvents = parseICS(JoinLines(Without(PhysicalLines,
                                                 SkippablePositions, 1))))

\* C24 (amended): a blank or colon-less line of the unfolded document leaves
\* the accumulator and the output list as they are and parsing goes on with
\* the following line; removing such lines from the unfolded lines, or
\* removing from the document those of them that are no continuation lines
\* and are followed by none, does not change what parseICS returns.
C24_SkippedLogicalLinesRemovable ==
    /\ SkippableLineKeepsState
    /\ [](ppc = "done" =>
            \A unfolded \in {SplitLines(Unfold(pData))} :
               pEvents =
                  ParseLines(NullEvent, <<>>,
                             Without(unfolded,
                                     { i \in 1..Len(unfolded) :
                                         BlankOrColonless(unfolded[i]) }, 1)))
    /\ [](ppc = "done" =>
            pEvents = parseICS(JoinLines(Without(PhysicalLines,
                                                 StandalonePositions, 1))))

\* the colon-less line STATUS after the SUMMARY line was read with the
\* accumulator open, and the event of the block was returned
C24_Witness ==
    /\ ppc = "done"
    /\ pData = JoinLines(<<LineBegin, LineSummaryA, LineNoColon, LineStart,
                           LineEnd>>)
    /\ Len(pEvents) = 1
    /\ pEvents[1].title = TitleA

\* the logical lines of a list of physical lines: a physical line that
\* begins with a space or a tab is put, without that character, at the end
\* of the logical line before it
RECURSIVE LogicalLines(_, _)
LogicalLines(done, rest) ==
    IF rest = <<>> THEN done
    ELSE IF IsContinuation(Head(rest)) /\ done # <<>>
         THEN LogicalLines([done EXCEPT ![Len(done)] = @ \o Tail(Head(rest))],
                           Tail(rest))
    ELSE LogicalLines(Append(done, Head(rest)), Tail(rest))

\* the document has the event block, with one line folded or none, and no
\* other line
BlockOnly == SplitLines(pData) \in FoldedBlocks

\* C25: before a line is interpreted every physical line that begins with a
\* space or a tab is joined to the logical line before it, without the line
\* break and that one character; a document with a property line folded at
\* any position returns what the unfolded document returns.
C25_FoldedParsesAsUnfolded ==
    /\ [][ ppc = "call" =>
             pLines' = LogicalLines(<<>>, SplitLines(pData)) ]_vars
    /\ [](ppc = "done" =>
            /\ pEvents = ParseLines(NullEvent, <<>>,
                                    LogicalLines(<<>>, SplitLines(pData)))
            /\ BlockOnly =>
                 pEvents = parseICS(JoinLines(<<LineBegin, LineSummaryA,
                                                LineStart, LineEnd>>)))

\* the SUMMARY line folded inside its key, with CR LF and a tab: the event
\* of the block was returned with its title
C25_Witness ==
    /\ ppc = "done"
    /\ pData = JoinLines(<<LineBegin, <<"S", "U", "M", "\r">>,
                           <<"\t", "M", "A", "R", "Y", ":", "A">>,
                           LineStart, LineEnd>>)
    /\ Len(pEvents) = 1
    /\ pEvents[1].title = TitleA

(***************************************************************************)
(* The layout order: the blocks of the page and the buttons that move a    *)
(* block up or down.                                                       *)
(***************************************************************************)
MaxMoves == 4          \* at most MaxMoves moves are sent to the analytics client

\* the block at the target index is copied over the block at index
SwapBlocks_Overwrite(order, index, targetIndex) ==
    [order EXCEPT ![index + 1] = order[targetIndex + 1]]

\* [newOrder[index], newOrder[targetIndex]] = [newOrder[targetIndex], newOrder[index]]
SwapBlocks(order, index, targetIndex) ==
    [order EXCEPT ![index + 1] = order[targetIndex + 1],
                  ![targetIndex + 1] = order[index + 1]]

LayoutInit ==
    /\ EnvInit
    /\ DateIdle
    /\ ExpIdle
    /\ ParseIdle
    /\ GridIdle
    /\ AppIdle
    /\ SessionIdle
    /\ GeoIdle
    /\ DayIdle
    /\ lOrder = DefaultLayoutOrder
    /\ lSent = 0
    /\ lPrev = DefaultLayoutOrder
    /\ lLast = NoMove
    /\ lpc = "run"

\* moveBlock(index, direction), called by the up and down buttons of the
\* block at index
moveBlock(index, direction) ==
    /\ lpc = "run"
    /\ lSent < MaxMoves
    /\ LET targetIndex == IF direction = "up" THEN index - 1 ELSE index + 1
       IN  IF targetIndex >= 0 /\ targetIndex < Len(lOrder)
           THEN /\ lOrder' = SwapBlocks(lOrder, index, targetIndex)
                /\ lSent' = lSent + 1
           ELSE UNCHANGED <<lOrder, lSent>>
    /\ lPrev' = lOrder
    /\ lLast' = [index |-> index, direction |-> direction]
    /\ UNCHANGED <<envVars, dateVars, expVars, parseVars, gridVars, appVars,
                   sessionVars, geoVars, dayVars, lpc>>

LayoutNext ==
    \E index \in 0..(Len(lOrder) - 1), direction \in {"up", "down"} :
        moveBlock(index, direction)

LayoutSpec == LayoutInit /\ [][LayoutNext]_vars

\* the position (1-based) the last move exchanges with the position of its
\* index, or 0 when there is none
NeighbourOfLast ==
    LET t == IF lLast.direction = "up" THEN lLast.index ELSE lLast.index + 2
    IN  IF t \in 1..Len(lPrev) THEN t ELSE 0

====
